---- MODULE Spec2Model ----
(***************************************************************************)
(* VRProfileSwitcher: the profile stack, its resolution, and the switch    *)
(* orchestration (core/switcher.py) over the managed applications          *)
(* (core/module_base.py, modules/*.py) and the profile store               *)
(* (core/profile_manager.py).                                              *)
(*                                                                         *)
(* A Python dict is modelled with its insertion order where the code       *)
(* iterates it (Profile.modules: a sequence of entries) and as a function  *)
(* over its key set where the code only looks keys up (resolve_stack's     *)
(* result, OperationResult.module_results).                                *)
(***************************************************************************)
EXTENDS Integers, Sequences, FiniteSets, TLC

VARIABLES
    cfg,        \* profile name -> Profile.modules (ordered entries)
    stack,      \* MainWindow._active_stack as profile names, index 1 = lowest priority
    live,       \* live config of the file-copy applications
    launch,     \* Resonite's -DataPath target in Steam's localconfig.vdf
    data,       \* names for which resonite_data/<name>/Data exists
    store,      \* profile directories: directory -> application -> snapshot
    autoMeta,   \* __last_backup/profile.json: the synthetic modules record, <<>> if none
    op,         \* the last orchestrator call and its arguments
    result,     \* the OperationResult the last call returned
    calls,      \* what the last call invoked, in order
    query,      \* arguments of the last pure stack query
    answer,     \* what the last pure stack query returned
    gui,        \* the main window: selection, enabled buttons, workers in flight
    objs        \* the profile records in memory: defaults, Profile objects, options dicts

vars == <<cfg, stack, live, launch, data, store, autoMeta,
          op, result, calls, query, answer, gui, objs>>

(***************************************************************************)
(* Bounds                                                                  *)
(***************************************************************************)
\* Most anomalies in one behaviour: things missing at start, I/O errors,
\* blocking processes, failed reload requests.
MaxFaults == 2
\* Orchestrator calls in a row explored by the sequence scenarios.
MaxOps == 2
\* Loads and unloads in a row explored by the stack scenarios.
MaxStackOps == 4
\* Longest list of config paths handed to the file-copy backup.
MaxPaths == 3

(***************************************************************************)
(* Registry and profile records                                            *)
(***************************************************************************)
\* modules/__init__.py: the registered applications, in registration order.
MODULE_REGISTRY == <<"slimevr", "steamvr", "resonite", "eyetrackvr", "babble">>

Range(s) == {s[i] : i \in 1..Len(s)}

\* ProfileManager.AUTO_BACKUP_NAME
AUTO_BACKUP_NAME == "__last_backup"

\* An options dict as a set of <<key, value>> pairs.
NoOptions == {}
DriverOptions(d) == {<<"active_driver", d>>}

\* DEFAULT_MODULE_CONFIG, in its insertion order.
DEFAULT_MODULE_CONFIG ==
    << [id |-> "slimevr",    enabled |-> TRUE,  options |-> NoOptions],
       [id |-> "steamvr",    enabled |-> TRUE,  options |-> DriverOptions("None")],
       [id |-> "resonite",   enabled |-> TRUE,  options |-> NoOptions],
       [id |-> "eyetrackvr", enabled |-> FALSE, options |-> NoOptions],
       [id |-> "babble",     enabled |-> FALSE, options |-> NoOptions] >>

\* A Profile object: its name and its modules dict.
Profile(name, modules) == [name |-> name, modules |-> modules]

\* dict.get(mid) on Profile.modules: the entry, or a one-element/empty set view.
Entries(modules, mid) == {i \in 1..Len(modules) : modules[i].id = mid}

HasEntry(modules, mid) == Entries(modules, mid) # {}

Entry(modules, mid) == modules[CHOOSE i \in Entries(modules, mid) : TRUE]

\* Profile.enabled_modules: ids of the enabled entries, in dict order.
RECURSIVE EnabledFrom(_, _)
EnabledFrom(modules, i) ==
    IF i > Len(modules) THEN <<>>
    ELSE (IF modules[i].enabled THEN <<modules[i].id>> ELSE <<>>)
         \o EnabledFrom(modules, i + 1)

enabled_modules(profile) == EnabledFrom(profile.modules, 1)

EnabledSet(profile) == Range(enabled_modules(profile))

\* Profile.get_module_options
get_module_options(profile, mid) ==
    IF HasEntry(profile.modules, mid)
    THEN Entry(profile.modules, mid).options
    ELSE NoOptions

(***************************************************************************)
(* Stack resolution (Switcher.resolve_stack, check_stack_conflicts)        *)
(***************************************************************************)
\* result[mid] = profile on a dict held as a function over its keys.
Put(d, k, v) == [x \in (DOMAIN d) \cup {k} |-> IF x = k THEN v ELSE d[x]]

EmptyDict == [x \in {} |-> {}]

\* Faulty variant: an entry, once set, is kept (the first profile to enable it wins).
RECURSIVE AssignAllKeep(_, _, _, _)
AssignAllKeep(d, mids, i, profile) ==
    IF i > Len(mids) THEN d
    ELSE AssignAllKeep(IF mids[i] \in DOMAIN d THEN d ELSE Put(d, mids[i], profile),
                       mids, i + 1, profile)

RECURSIVE AssignAll(_, _, _, _)
AssignAll(d, mids, i, profile) ==
    IF i > Len(mids) THEN d
    ELSE AssignAll(Put(d, mids[i], profile), mids, i + 1, profile)

RECURSIVE ResolveFrom(_, _, _)
ResolveFrom(stk, i, d) ==
    IF i > Len(stk) THEN d
    ELSE ResolveFrom(stk, i + 1,
                     AssignAll(d, enabled_modules(stk[i]), 1, stk[i]))

\* Faulty variant: only the top profile of the stack is resolved.
resolve_stack_top(stk) ==
    IF stk = <<>> THEN EmptyDict
    ELSE AssignAll(EmptyDict, enabled_modules(stk[Len(stk)]), 1, stk[Len(stk)])

resolve_stack(stk) == ResolveFrom(stk, 1, EmptyDict)

\* Faulty variant: the conflict names the incoming profile on both sides.
RECURSIVE ConflictsOfIncoming(_, _, _, _)
ConflictsOfIncoming(incoming, active, mids, i) ==
    IF i > Len(mids) THEN <<>>
    ELSE (IF mids[i] \in EnabledSet(incoming)
          THEN << [module_id        |-> mids[i],
                   incoming_profile |-> incoming.name,
                   active_profile   |-> incoming.name] >>
          ELSE <<>>)
         \o ConflictsOfIncoming(incoming, active, mids, i + 1)

\* The conflicts one active profile contributes, in its enabled order.
RECURSIVE ConflictsOf(_, _, _, _)
ConflictsOf(incoming, active, mids, i) ==
    IF i > Len(mids) THEN <<>>
    ELSE (IF mids[i] \in EnabledSet(incoming)
          THEN << [module_id        |-> mids[i],
                   incoming_profile |-> incoming.name,
                   active_profile   |-> active.name] >>
          ELSE <<>>)
         \o ConflictsOf(incoming, active, mids, i + 1)

\* Faulty variant: the stack entry sharing the incoming name is not skipped.
RECURSIVE ConflictsFromAll(_, _, _)
ConflictsFromAll(incoming, stk, i) ==
    IF i > Len(stk) THEN <<>>
    ELSE ConflictsOf(incoming, stk[i], enabled_modules(stk[i]), 1)
         \o ConflictsFromAll(incoming, stk, i + 1)

RECURSIVE ConflictsFrom(_, _, _)
ConflictsFrom(incoming, stk, i) ==
    IF i > Len(stk) THEN <<>>
    ELSE (IF stk[i].name = incoming.name THEN <<>>
          ELSE ConflictsOf(incoming, stk[i], enabled_modules(stk[i]), 1))
         \o ConflictsFrom(incoming, stk, i + 1)

check_stack_conflicts(incoming, stk) == ConflictsFrom(incoming, stk, 1)

(***************************************************************************)
(* Managed applications (core/module_base.py, modules/*.py)                *)
(*                                                                         *)
(* The world a call works on is a record w:                                *)
(*   live   application -> [base, driver]   the live config files          *)
(*   launch the profile directory Resonite's launch options point at       *)
(*   data   directory names whose resonite_data/<name>/Data exists         *)
(*   store  directory -> application -> [base, driver, meta]  snapshots    *)
(*   calls  the log of what was invoked                                    *)
(* The config of a file-copy application is one item: base names its       *)
(* content ("missing": the live file does not exist, "none": no snapshot), *)
(* driver the custom driver enabled inside it.  The environment of a call  *)
(* is a record env: bio/rio the I/O outcome of each application's backup / *)
(* restore, running the running applications, steam whether Steam runs,    *)
(* probe whether the tasklist call works, vdf whether localconfig.vdf is   *)
(* found, reload the reload request result, mio the metadata write that    *)
(* fails.                                                                  *)
(***************************************************************************)
\* The applications whose backup/restore is the file copy of VRModule.
FileCopyModules == {"slimevr", "steamvr"}

\* The applications the profiles of the model may enable.
ModelledModules == FileCopyModules \cup {"resonite"}

NoSnapshot == [base |-> "none", extra |-> "none", driver |-> "None", meta |-> "none"]

Log(w, call, mid, arg, opts, ret) ==
    [w EXCEPT !.calls = Append(@, [call |-> call, mid |-> mid, arg |-> arg,
                                   opts |-> opts, ret |-> ret])]

Ret(w, raised, ok, msg) == [w |-> w, raised |-> raised, ok |-> ok, msg |-> msg]

\* options.get("active_driver"), "None" when absent or None.
ActiveDriver(opts) ==
    IF \E kv \in opts : kv[1] = "active_driver"
    THEN (CHOOSE kv \in opts : kv[1] = "active_driver")[2]
    ELSE "None"

\* Faulty variant: any missing config path makes the backup fail.
BackupVerdictStrict(copied, missing, errors) ==
    IF errors > 0 THEN [ok |-> FALSE, msg |-> "Backup partially failed"]
    ELSE IF missing > 0 THEN [ok |-> FALSE, msg |-> "Nothing to back up"]
    ELSE [ok |-> TRUE, msg |-> "Backed up"]

\* The closing tests of VRModule.backup on its three counters.
BackupVerdict(copied, missing, errors) ==
    IF errors > 0 THEN [ok |-> FALSE, msg |-> "Backup partially failed"]
    ELSE IF copied = 0 /\ missing > 0
         THEN [ok |-> FALSE, msg |-> "Nothing to back up"]
    ELSE [ok |-> TRUE, msg |-> "Backed up"]

\* The loop of VRModule.backup over get_config_paths(): paths[i] is
\* [name, content], content "missing" when the path does not exist; io[i]
\* tells whether copying it raises; a.dest maps the names of the items of
\* dest_dir/<id>/ to their content ("none": no such item).
RECURSIVE CopyPaths(_, _, _, _)
CopyPaths(a, paths, io, i) ==
    IF i > Len(paths) THEN a
    ELSE CopyPaths(
            IF paths[i].content = "missing" THEN [a EXCEPT !.missing = @ + 1]
            ELSE IF io[i] = "err" THEN [a EXCEPT !.errors = @ + 1]
            ELSE [a EXCEPT !.copied = @ + 1,
                           !.dest[paths[i].name] = paths[i].content],
            paths, io, i + 1)

\* VRModule.backup: (success, message), with the counters behind the message
\* and what dest_dir/<id>/ holds afterwards.
backup(paths, io, dest) ==
    LET a == CopyPaths([dest |-> dest, copied |-> 0, missing |-> 0, errors |-> 0],
                       paths, io, 1)
        v == BackupVerdict(a.copied, a.missing, a.errors)
    IN  [ok |-> v.ok, msg |-> v.msg, copied |-> a.copied, dest |-> a.dest]

\* VRModule.backup, with SteamVRModule.backup's driver note.  A config path
\* that does not exist is skipped, and what dest_dir/<id>/ holds of it from an
\* earlier backup stays.
FileCopyBackup(w, mid, dir, opts, env) ==
    LET lv  == w.live[mid]
        old == w.store[dir][mid]
        b   == backup(<<[name |-> "base", content |-> lv.base],
                        [name |-> "extra", content |-> lv.extra]>>,
                      [i \in 1..2 |-> IF env.bio[mid] = "err" THEN "err" ELSE "ok"],
                      [base |-> old.base, extra |-> old.extra])
    IN
    IF env.bio[mid] = "raise" THEN Ret(w, TRUE, FALSE, "exception")
    ELSE IF ~b.ok THEN Ret(w, FALSE, FALSE, b.msg)
    ELSE LET meta == IF mid = "steamvr" /\ ActiveDriver(opts) # "None"
                     THEN ActiveDriver(opts) ELSE old.meta
             snap == [base   |-> b.dest.base,
                      extra  |-> b.dest.extra,
                      driver |-> IF lv.base # "missing" THEN lv.driver ELSE old.driver,
                      meta   |-> meta]
         IN  Ret([w EXCEPT !.store[dir][mid] = snap], FALSE, TRUE, b.msg)

\* VRModule.restore, with SteamVRModule.restore's driver override: every item
\* of src_dir/<id>/ is copied to its live place; no live file is removed.
FileCopyRestore(w, mid, dir, opts, env) ==
    LET snap == w.store[dir][mid]
        lv   == w.live[mid]
    IN
    IF snap.base = "none" /\ snap.extra = "none"
    THEN Ret(w, FALSE, FALSE, "No backup found")
    ELSE IF env.rio[mid] = "raise" THEN Ret(w, TRUE, FALSE, "exception")
    ELSE IF env.rio[mid] = "err"
         THEN Ret(w, FALSE, FALSE, "Restore partially failed")
    ELSE LET base == IF snap.base # "none" THEN snap.base ELSE lv.base
             drv  == IF snap.base # "none" THEN snap.driver ELSE lv.driver
             new  == [base   |-> base,
                      extra  |-> IF snap.extra # "none" THEN snap.extra ELSE lv.extra,
                      driver |-> IF mid = "steamvr" /\ snap.meta # "none"
                                    /\ base # "missing"
                                 THEN snap.meta ELSE drv]
         IN  Ret([w EXCEPT !.live[mid] = new], FALSE, TRUE, "Restored")

\* VRModule.validate_backup: the directory exists and holds an item.
FileCopyValidate(w, mid, dir) ==
    w.store[dir][mid].base # "none" \/ w.store[dir][mid].extra # "none"

\* _steam_is_running / _resonite_is_running: what tasklist lists; when the
\* tasklist call raises, the except branch answers False.
steam_is_running(env) == env.probe = "ok" /\ env.steam

resonite_is_running(env) == env.probe = "ok" /\ "resonite" \in env.running

\* ResoniteModule.backup
ResoniteBackup(w, dir, env) ==
    IF resonite_is_running(env)
    THEN Ret(w, FALSE, FALSE, "Resonite is running")
    ELSE Ret([w EXCEPT !.data = @ \cup {dir}], FALSE, TRUE, "Profile dirs ready")

\* ResoniteModule.restore
ResoniteRestore(w, dir, env) ==
    IF resonite_is_running(env)
    THEN Ret(w, FALSE, FALSE, "Resonite is running")
    ELSE IF steam_is_running(env) THEN Ret(w, FALSE, FALSE, "Steam is running")
    ELSE LET w1 == [w EXCEPT !.data = @ \cup {dir}] IN
         IF ~env.vdf THEN Ret(w1, FALSE, FALSE, "Could not find localconfig.vdf")
         ELSE Ret([w1 EXCEPT !.launch = dir], FALSE, TRUE, "Launch options updated")

\* ResoniteModule.remove_launch_args
remove_launch_args(w, env) ==
    IF steam_is_running(env) THEN Ret(w, FALSE, FALSE, "Steam is running")
    ELSE IF ~env.vdf THEN Ret(w, FALSE, FALSE, "Could not find localconfig.vdf")
    ELSE Ret([w EXCEPT !.launch = "default"], FALSE, TRUE, "Removed")

\* ResoniteModule.validate_backup
ResoniteValidate(w, dir) == dir \in w.data

\* module.backup(dest_dir) / restore(src_dir) / validate_backup(src_dir) by id.
ModuleBackup(w, mid, dir, opts, env) ==
    IF mid = "resonite" THEN ResoniteBackup(w, dir, env)
    ELSE FileCopyBackup(w, mid, dir, opts, env)

ModuleRestore(w, mid, dir, opts, env) ==
    IF mid = "resonite" THEN ResoniteRestore(w, dir, env)
    ELSE FileCopyRestore(w, mid, dir, opts, env)

validate_backup(w, mid, dir) ==
    IF mid = "resonite" THEN ResoniteValidate(w, dir)
    ELSE FileCopyValidate(w, mid, dir)

\* can_reload_live: SteamVR only.
can_reload_live(mid) == mid = "steamvr"

\* get_status().is_running
is_running(mid, env) == mid \in env.running

\* trigger_reload: SteamVR's restart request; the base class returns False.
trigger_reload(mid, env) == mid = "steamvr" /\ env.reload

\* modules.get_module: KeyError for an id that is not registered.
Registered(mid) == mid \in Range(MODULE_REGISTRY)

RetName(r) == IF r.raised THEN "raise" ELSE IF r.ok THEN "ok" ELSE "fail"

\* Faulty variant: the callback is not invoked.
AnnounceNothing(w, mid, phase) == w

\* if progress: progress(mid, phase, message)
Announce(w, mid, phase) == Log(w, "progress", mid, phase, NoOptions, "-")

(***************************************************************************)
(* The orchestrator (core/switcher.py)                                     *)
(*                                                                         *)
(* A call threads an accumulator a = [w, r]: the world and the             *)
(* OperationResult under construction.  errors and warnings hold           *)
(* <<label, message>> pairs, the label being the application id.           *)
(***************************************************************************)
\* OperationResult(success=True)
NewResult == [success |-> TRUE, module_results |-> EmptyDict,
              errors |-> <<>>, warnings |-> <<>>]

SetModuleResult(r, key, ok, msg) ==
    [r EXCEPT !.module_results = Put(@, key, [ok |-> ok, msg |-> msg])]

AddError(r, mid, msg) ==
    [r EXCEPT !.success = FALSE, !.errors = Append(@, <<mid, msg>>)]

AddWarning(r, mid, msg) == [r EXCEPT !.warnings = Append(@, <<mid, msg>>)]

\* except Exception as e: of backup_to_profile and load_into_stack.
Caught(r, mid) == AddError(SetModuleResult(r, mid, FALSE, "exception"), mid, "exception")

\* ProfileManager.profile_dir: the directory is named after the profile.
profile_dir(name) == name

\* Faulty variant: the application object is built without the profile's options.
make_module_bare(profile, mid) == NoOptions

\* Switcher._make_module: the application object carries the profile's
\* options for it.
make_module(profile, mid) == get_module_options(profile, mid)

\* Faulty variant: every running application blocks.
BlockingAny(mid, env) == is_running(mid, env)

\* check_conflicts' test: status.is_running and not module.can_reload_live().
Blocking(mid, env) == is_running(mid, env) /\ ~can_reload_live(mid)

\* check_conflicts' loop: one ModuleConflict per blocking application.
RECURSIVE AppConflictsFrom(_, _, _)
AppConflictsFrom(mids, i, env) ==
    IF i > Len(mids) THEN <<>>
    ELSE (IF Registered(mids[i]) /\ Blocking(mids[i], env)
          THEN <<[module_id |-> mids[i], can_reload |-> FALSE]>>
          ELSE <<>>)
         \o AppConflictsFrom(mids, i + 1, env)

\* Switcher.check_conflicts
check_conflicts(profile, env) == AppConflictsFrom(enabled_modules(profile), 1, env)

\* One iteration of backup_to_profile's loop.
BackupStep(a, profile, mid, env) ==
    LET w1 == Announce(a.w, mid, "backup") IN
    IF ~Registered(mid)
    THEN [w |-> Log(w1, "get_module", mid, "-", NoOptions, "raise"),
          r |-> Caught(a.r, mid)]
    ELSE LET opts == make_module(profile, mid)
             b    == ModuleBackup(w1, mid, profile_dir(profile.name), opts, env)
             w2   == Log(b.w, "backup", mid, profile_dir(profile.name), opts, RetName(b))
         IN  IF b.raised THEN [w |-> w2, r |-> Caught(a.r, mid)]
             ELSE IF b.ok
                  THEN [w |-> w2, r |-> SetModuleResult(a.r, mid, TRUE, b.msg)]
             ELSE [w |-> w2,
                   r |-> AddError(SetModuleResult(a.r, mid, FALSE, b.msg), mid, b.msg)]

RECURSIVE BackupLoop(_, _, _, _, _)
BackupLoop(a, profile, mids, i, env) ==
    IF i > Len(mids) THEN a
    ELSE BackupLoop(BackupStep(a, profile, mids[i], env), profile, mids, i + 1, env)

\* A metadata write (mkdir, write_text) named step: OSError when the
\* environment refuses it.
MetaWrite(step, env) == IF env.mio = step THEN "raise" ELSE "ok"

\* Faulty variant: the metadata is saved only after a backup without failure.
backup_to_profile_save_on_success(w, profile, env) ==
    LET a == BackupLoop([w |-> w, r |-> NewResult], profile,
                        enabled_modules(profile), 1, env)
        s == MetaWrite("save", env)
    IN  IF a.r.success
        THEN [w |-> Log(a.w, "save_profile_meta", "-", profile.name, NoOptions, s),
              r |-> a.r, escaped |-> s = "raise"]
        ELSE [w |-> a.w, r |-> a.r, escaped |-> FALSE]

\* Switcher.backup_to_profile: [w, r, escaped], escaped when save_profile_meta
\* raised, which nothing in the orchestrator catches.
backup_to_profile(w, profile, env) ==
    LET a == BackupLoop([w |-> w, r |-> NewResult], profile,
                        enabled_modules(profile), 1, env)
        s == MetaWrite("save", env)
    IN  [w |-> Log(a.w, "save_profile_meta", "-", profile.name, NoOptions, s),
         r |-> a.r, escaped |-> s = "raise"]

\* Profile.__post_init__: every known id missing from modules gets the default.
RECURSIVE PostInitFrom(_, _)
PostInitFrom(modules, i) ==
    IF i > Len(DEFAULT_MODULE_CONFIG) THEN modules
    ELSE PostInitFrom(
            IF HasEntry(modules, DEFAULT_MODULE_CONFIG[i].id) THEN modules
            ELSE Append(modules, DEFAULT_MODULE_CONFIG[i]),
            i + 1)

PostInit(modules) == PostInitFrom(modules, 1)

\* Faulty variant: the incoming profile always stands for the owner.
OwnerIncoming(resolution, mid, incoming) == incoming

\* resolution.get(mid, incoming)
OwnerOf(resolution, mid, incoming) ==
    IF mid \in DOMAIN resolution THEN resolution[mid] ELSE incoming

\* The synthetic modules dict of the auto-backup profile.json.
RECURSIVE SyntheticFrom(_, _, _, _)
SyntheticFrom(resolution, incoming, mods, i) ==
    IF i > Len(mods) THEN <<>>
    ELSE LET owner == OwnerOf(resolution, mods[i], incoming)
             rec   == IF HasEntry(owner.modules, mods[i])
                      THEN Entry(owner.modules, mods[i])
                      ELSE [id |-> mods[i], enabled |-> TRUE, options |-> NoOptions]
         IN  <<rec>> \o SyntheticFrom(resolution, incoming, mods, i + 1)

\* One iteration of _auto_backup_affected's backup loop.
AutoBackupStep(w, resolution, incoming, mid, env) ==
    LET w1    == Announce(w, mid, "auto_backup")
        owner == OwnerOf(resolution, mid, incoming)
    IN  IF ~Registered(mid)
        THEN Log(w1, "get_module", mid, "-", NoOptions, "raise")
        ELSE LET opts == make_module(owner, mid)
                 b    == ModuleBackup(w1, mid, AUTO_BACKUP_NAME, opts, env)
             IN  Log(b.w, "backup", mid, AUTO_BACKUP_NAME, opts, RetName(b))

RECURSIVE AutoBackupLoop(_, _, _, _, _, _)
AutoBackupLoop(w, resolution, incoming, mods, i, env) ==
    IF i > Len(mods) THEN w
    ELSE AutoBackupLoop(AutoBackupStep(w, resolution, incoming, mods[i], env),
                        resolution, incoming, mods, i + 1, env)

\* Switcher._auto_backup_affected: the world after it, the record it wrote
\* (<<>> when it wrote none) and whether backup_dir.mkdir or write_text
\* raised; neither is inside a try.
auto_backup_affected(w, incoming, current_stack, env) ==
    LET resolution == resolve_stack(current_stack)
        mods       == enabled_modules(incoming)
        meta       == PostInit(SyntheticFrom(resolution, incoming, mods, 1))
        w0         == Log(w, "mkdir", "-", AUTO_BACKUP_NAME, NoOptions,
                          MetaWrite("mkdir", env))
        w1         == Log(w0, "write_auto_meta", "-", AUTO_BACKUP_NAME, NoOptions,
                          MetaWrite("write", env))
    IN  IF MetaWrite("mkdir", env) = "raise"
        THEN [w |-> w0, meta |-> <<>>, escaped |-> TRUE]
        ELSE IF MetaWrite("write", env) = "raise"
        THEN [w |-> w1, meta |-> <<>>, escaped |-> TRUE]
        ELSE [w    |-> AutoBackupLoop(w1, resolution, incoming, mods, 1, env),
              meta |-> meta, escaped |-> FALSE]

\* Faulty variant: a missing backup is recorded as an error.
NoBackupIsError(r, mid) ==
    AddError(SetModuleResult(r, mid, FALSE, "No backup"), mid, "No backup")

\* load_into_stack when validate_backup fails: a result entry and a warning.
NoBackup(r, mid) ==
    AddWarning(SetModuleResult(r, mid, FALSE, "No backup"), mid, "No backup")

\* Faulty variant: every running application is asked to reload.
ReloadAnyRunning(mid, env) == is_running(mid, env)

\* load_into_stack's test: status.is_running and module.can_reload_live().
ReloadDue(mid, env) == is_running(mid, env) /\ can_reload_live(mid)

\* One iteration of load_into_stack's loop.
LoadStep(a, incoming, mid, env) ==
    LET w1  == Announce(a.w, mid, "restore")
        src == profile_dir(incoming.name)
    IN  IF ~Registered(mid)
        THEN [w |-> Log(w1, "get_module", mid, "-", NoOptions, "raise"),
              r |-> Caught(a.r, mid)]
        ELSE
        LET opts == make_module(incoming, mid)
            v    == validate_backup(w1, mid, src)
            w2   == Log(w1, "validate_backup", mid, src, opts,
                        IF v THEN "ok" ELSE "fail")
        IN  IF ~v
            THEN [w |-> w2, r |-> NoBackup(a.r, mid)]
            ELSE
            LET t  == ModuleRestore(w2, mid, src, opts, env)
                w3 == Log(t.w, "restore", mid, src, opts, RetName(t))
            IN  IF t.raised THEN [w |-> w3, r |-> Caught(a.r, mid)]
                ELSE IF ~t.ok
                     THEN [w |-> w3,
                           r |-> AddError(SetModuleResult(a.r, mid, FALSE, t.msg),
                                          mid, t.msg)]
                ELSE LET r1 == SetModuleResult(a.r, mid, TRUE, t.msg)
                         w4 == Log(w3, "get_status", mid, "-", opts,
                                   IF is_running(mid, env) THEN "running" ELSE "idle")
                     IN
                     IF ReloadDue(mid, env)
                     THEN LET ok == trigger_reload(mid, env) IN
                          [w |-> Log(w4, "trigger_reload", mid, "-", opts,
                                     IF ok THEN "ok" ELSE "fail"),
                           r |-> IF ok THEN r1
                                 ELSE AddWarning(r1, mid, "reload trigger failed")]
                     ELSE [w |-> w4, r |-> r1]

\* Faulty variant: the loop stops at the first application that fails.
RECURSIVE LoadLoopAbort(_, _, _, _, _)
LoadLoopAbort(a, incoming, mids, i, env) ==
    IF i > Len(mids) \/ ~a.r.success THEN a
    ELSE LoadLoopAbort(LoadStep(a, incoming, mids[i], env), incoming, mids, i + 1, env)

RECURSIVE LoadLoop(_, _, _, _, _)
LoadLoop(a, incoming, mids, i, env) ==
    IF i > Len(mids) THEN a
    ELSE LoadLoop(LoadStep(a, incoming, mids[i], env), incoming, mids, i + 1, env)

\* Faulty variant: last_used is updated whatever the outcome.
TouchAlways(r) == TRUE

\* load_into_stack's closing test: if result.success.
TouchDue(r) == r.success

\* Faulty variant: the auto-backup is taken after the applications were restored.
load_into_stack_late(w, incoming, current_stack, auto_backup_first, env) ==
    LET a  == LoadLoop([w |-> w, r |-> NewResult], incoming,
                       enabled_modules(incoming), 1, env)
        ab == IF auto_backup_first
              THEN auto_backup_affected(
                       Announce(a.w, "__auto_backup", "backup"),
                       incoming, current_stack, env)
              ELSE [w |-> a.w, meta |-> <<>>, escaped |-> FALSE]
        t  == MetaWrite("touch", env)
    IN  IF ab.escaped THEN [w |-> ab.w, r |-> a.r, meta |-> <<>>, escaped |-> TRUE]
        ELSE IF TouchDue(a.r)
        THEN [w |-> Log(ab.w, "touch_last_used", "-", incoming.name, NoOptions, t),
              r |-> a.r, meta |-> ab.meta, escaped |-> t = "raise"]
        ELSE [w |-> ab.w, r |-> a.r, meta |-> ab.meta, escaped |-> FALSE]

\* Switcher.load_into_stack: [w, r, meta, escaped], meta being the
\* auto-backup record it wrote (<<>> when it wrote none) and escaped telling
\* that an exception left the call: from _auto_backup_affected, before any
\* restore, or from touch_last_used, after the last one.
load_into_stack(w, incoming, current_stack, auto_backup_first, env) ==
    LET ab == IF auto_backup_first
              THEN auto_backup_affected(
                       Announce(w, "__auto_backup", "backup"),
                       incoming, current_stack, env)
              ELSE [w |-> w, meta |-> <<>>, escaped |-> FALSE]
        a  == LoadLoop([w |-> ab.w, r |-> NewResult], incoming,
                       enabled_modules(incoming), 1, env)
        t  == MetaWrite("touch", env)
    IN  IF ab.escaped
        THEN [w |-> ab.w, r |-> NewResult, meta |-> <<>>, escaped |-> TRUE]
        ELSE IF TouchDue(a.r)
        THEN [w |-> Log(a.w, "touch_last_used", "-", incoming.name, NoOptions, t),
              r |-> a.r, meta |-> ab.meta, escaped |-> t = "raise"]
        ELSE [w |-> a.w, r |-> a.r, meta |-> ab.meta, escaped |-> FALSE]

\* Faulty variant: nothing is reverted for any application.
revert_nothing(a, mid, env) == a

\* Switcher._revert_module_to_default
revert_module_to_default(a, mid, env) ==
    IF mid = "resonite"
    THEN LET t  == remove_launch_args(a.w, env)
             w1 == Log(t.w, "remove_launch_args", mid, "-", NoOptions, RetName(t))
             r1 == SetModuleResult(a.r, "resonite_cleanup", t.ok, t.msg)
         IN  [w |-> w1,
              r |-> IF t.ok THEN r1 ELSE AddWarning(r1, mid, t.msg)]
    ELSE a

\* One iteration of unload_from_stack's loop.
UnloadStep(a, resolution, mid, env) ==
    IF mid \in DOMAIN resolution
    THEN LET fallback == resolution[mid]
             w1  == Announce(a.w, mid, "restore")
             src == profile_dir(fallback.name)
         IN  IF ~Registered(mid)
             THEN [w |-> Log(w1, "get_module", mid, "-", NoOptions, "raise"),
                   r |-> AddWarning(a.r, mid, "exception")]
             ELSE
             LET opts == make_module(fallback, mid)
                 v    == validate_backup(w1, mid, src)
                 w2   == Log(w1, "validate_backup", mid, src, opts,
                             IF v THEN "ok" ELSE "fail")
             IN  IF ~v THEN [w |-> w2, r |-> AddWarning(a.r, mid, "fallback has no backup")]
                 ELSE
                 LET t  == ModuleRestore(w2, mid, src, opts, env)
                     w3 == Log(t.w, "restore", mid, src, opts, RetName(t))
                 IN  IF t.raised THEN [w |-> w3, r |-> AddWarning(a.r, mid, "exception")]
                     ELSE LET r1 == SetModuleResult(a.r, mid, t.ok, t.msg) IN
                          [w |-> w3,
                           r |-> IF t.ok THEN r1 ELSE AddWarning(r1, mid, t.msg)]
    ELSE revert_module_to_default(
             [a EXCEPT !.w = Announce(@, mid, "cleanup")],
             mid, env)

RECURSIVE UnloadLoop(_, _, _, _, _)
UnloadLoop(a, resolution, mids, i, env) ==
    IF i > Len(mids) THEN a
    ELSE UnloadLoop(UnloadStep(a, resolution, mids[i], env),
                    resolution, mids, i + 1, env)

\* return result: the call hands its OperationResult back.
Returns(a) == [w |-> a.w, r |-> a.r, escaped |-> FALSE]

\* Faulty variant: the loop runs over every application the profile or the
\* remaining stack enables.
unload_from_stack_all(w, profile, remaining_stack, env) ==
    Returns(UnloadLoop([w |-> w, r |-> NewResult], resolve_stack(remaining_stack),
               SelectSeq(MODULE_REGISTRY,
                         LAMBDA m : m \in EnabledSet(profile)
                                        \cup DOMAIN resolve_stack(remaining_stack)),
               1, env))

\* Switcher.unload_from_stack: every step of it is inside a try.
unload_from_stack(w, profile, remaining_stack, env) ==
    Returns(UnloadLoop([w |-> w, r |-> NewResult], resolve_stack(remaining_stack),
                       enabled_modules(profile), 1, env))

(***************************************************************************)
(* The profile records as Python objects (core/profile_manager.py).        *)
(* An options dict is an object of its own, held by reference: objs.heap   *)
(* maps each reference to the dict's content.  objs.defaults is the module *)
(* level DEFAULT_MODULE_CONFIG and objs.profiles maps a name to the        *)
(* modules dict of the Profile object in memory, both with a reference in  *)
(* the options field of each entry; the enabled flag is a value of the     *)
(* entry itself.                                                           *)
(***************************************************************************)
\* The reference to an options dict: the one written in DEFAULT_MODULE_CONFIG
\* for mid (owner "DEFAULT_MODULE_CONFIG"), or one made for a profile's entry.
Ref(owner, mid) == <<owner, mid>>

NoObjs ==
    [heap     |-> [r \in {Ref("DEFAULT_MODULE_CONFIG",
                               DEFAULT_MODULE_CONFIG[i].id) :
                            i \in 1..Len(DEFAULT_MODULE_CONFIG)} |->
                      Entry(DEFAULT_MODULE_CONFIG, r[2]).options],
     defaults |-> [i \in 1..Len(DEFAULT_MODULE_CONFIG) |->
                      [id      |-> DEFAULT_MODULE_CONFIG[i].id,
                       enabled |-> DEFAULT_MODULE_CONFIG[i].enabled,
                       options |-> Ref("DEFAULT_MODULE_CONFIG",
                                       DEFAULT_MODULE_CONFIG[i].id)]],
     profiles |-> EmptyDict]

\* dict(entry): a new dict with the same items; its options item is the
\* same options object.
dict_copy(entry) == entry

\* Profile.__post_init__ on the object: every known id missing from modules
\* gets dict(defaults).
RECURSIVE PostInitObjects(_, _, _)
PostInitObjects(modules, defaults, i) ==
    IF i > Len(defaults) THEN modules
    ELSE PostInitObjects(
            IF HasEntry(modules, defaults[i].id) THEN modules
            ELSE Append(modules, dict_copy(defaults[i])),
            defaults, i + 1)

\* Profile(name=...): modules starts as an empty dict.
NewProfile(o, name) ==
    [o EXCEPT !.profiles = Put(@, name, PostInitObjects(<<>>, o.defaults, 1))]

\* Profile.from_dict(json.loads(...)): the parsed modules dict and its
\* options dicts are objects of their own.
from_dict(o, name, parsed) ==
    LET own == [i \in 1..Len(parsed) |->
                   [id |-> parsed[i].id, enabled |-> parsed[i].enabled,
                    options |-> Ref(name, parsed[i].id)]]
        refs == {Ref(name, parsed[i].id) : i \in 1..Len(parsed)}
    IN  [o EXCEPT
            !.heap = [r \in (DOMAIN @) \cup refs |->
                         IF r \in refs THEN Entry(parsed, r[2]).options
                         ELSE @[r]],
            !.profiles = Put(@, name, PostInitObjects(own, o.defaults, 1))]

\* Profile.set_module_enabled(module_id, enabled)
set_module_enabled(o, name, mid, enabled) ==
    LET modules == o.profiles[name]
        filled  == IF HasEntry(modules, mid) THEN modules
                   ELSE Append(modules, dict_copy(Entry(o.defaults, mid)))
    IN  [o EXCEPT
            !.profiles = Put(@, name,
                [i \in 1..Len(filled) |->
                    IF filled[i].id = mid
                    THEN [filled[i] EXCEPT !.enabled = enabled]
                    ELSE filled[i]])]

\* options[key] = value on an options dict.
SetItem(options, key, value) ==
    {kv \in options : kv[1] # key} \cup {<<key, value>>}

\* Profile.set_module_option(module_id, key, value)
set_module_option(o, name, mid, key, value) ==
    LET modules == o.profiles[name]
        fresh   == ~HasEntry(modules, mid)
        filled  == IF fresh
                   THEN Append(modules, [id |-> mid, enabled |-> FALSE,
                                         options |-> Ref(name, mid)])
                   ELSE modules
        ref     == Entry(filled, mid).options
    IN  [o EXCEPT
            !.heap = [r \in (DOMAIN @) \cup {ref} |->
                         IF r = ref
                         THEN SetItem(IF fresh THEN NoOptions ELSE @[r], key, value)
                         ELSE @[r]],
            !.profiles = Put(@, name, filled)]

(***************************************************************************)
(* Profiles, environments and start states explored                        *)
(***************************************************************************)
ProfileNames == {"Gaming", "Social", "Work"}

Drivers == {"None", "leapmotion"}

\* A modules dict in DEFAULT_MODULE_CONFIG's key order: en the enabled
\* applications, drv the SteamVR active_driver option.
ModulesOf(en, drv) ==
    [i \in 1..Len(DEFAULT_MODULE_CONFIG) |->
        [id      |-> DEFAULT_MODULE_CONFIG[i].id,
         enabled |-> DEFAULT_MODULE_CONFIG[i].id \in en,
         options |-> IF DEFAULT_MODULE_CONFIG[i].id = "steamvr"
                     THEN DriverOptions(drv)
                     ELSE DEFAULT_MODULE_CONFIG[i].options]]

\* ProfileManager.get_profile: the Profile object read from profile.json.
get_profile(name) == Profile(name, cfg[name])

\* Sequences of distinct profile names, at most n long.
RECURSIVE StacksUpTo(_)
StacksUpTo(n) ==
    IF n = 0 THEN {<<>>}
    ELSE LET prev == StacksUpTo(n - 1) IN
         prev \cup UNION {{Append(s, p) : p \in ProfileNames \ Range(s)} :
                            s \in {t \in prev : Len(t) = n - 1}}

\* Every stack of distinct profiles.
Stacks == StacksUpTo(Cardinality(ProfileNames))

\* MainWindow._load_active_stack: the stack as Profile objects.
StackProfiles(names) == [i \in 1..Len(names) |-> get_profile(names[i])]

IO == {"ok", "err", "raise"}

\* The metadata write the environment refuses, if any: the mkdir of the
\* auto-backup directory, the write of its profile.json, save_profile_meta
\* or touch_last_used.
MetaIO == {"ok", "mkdir", "write", "save", "touch"}

Card(S) == Cardinality(S)

Faults(e) ==
      Card({m \in FileCopyModules : e.bio[m] # "ok"})
    + Card({m \in FileCopyModules : e.rio[m] # "ok"})
    + (IF "resonite" \in e.running THEN 1 ELSE 0)
    + (IF e.steam THEN 1 ELSE 0)
    + (IF e.vdf THEN 0 ELSE 1)
    + (IF e.reload THEN 0 ELSE 1)
    + (IF e.mio = "ok" THEN 0 ELSE 1)
    + (IF e.probe = "ok" THEN 0 ELSE 1)

\* The environments of one call: at most MaxFaults anomalies; the reload
\* outcome only varies while SteamVR runs, the tasklist outcome only while
\* there is a process for it to list.
Envs ==
    {e : e \in
        {x \in [bio : [FileCopyModules -> IO], rio : [FileCopyModules -> IO],
                running : SUBSET ModelledModules,
                steam : BOOLEAN, vdf : BOOLEAN, reload : BOOLEAN,
                mio : MetaIO, probe : {"ok", "raise"}] :
            /\ Faults(x) <= MaxFaults
            /\ ("steamvr" \notin x.running => x.reload)
            /\ (x.probe = "raise" => (x.steam \/ "resonite" \in x.running))}}

Dirs == ProfileNames \cup {AUTO_BACKUP_NAME}

\* The profiles on disk.  Work is a freshly created profile (the defaults).
Catalogue ==
    [n \in ProfileNames |->
        CASE n = "Gaming" -> ModulesOf({"slimevr", "steamvr"}, "leapmotion")
          [] n = "Social" -> ModulesOf({"steamvr", "resonite"}, "None")
          [] OTHER        -> DEFAULT_MODULE_CONFIG]

\* The snapshot a profile directory holds from an earlier backup_to_profile.
EarlierSnapshot(name, mid) ==
    LET d == ActiveDriver(get_module_options(Profile(name, Catalogue[name]), mid))
    IN  [base |-> name, extra |-> "none", driver |-> "None",
         meta |-> IF mid = "steamvr" /\ d # "None" THEN d ELSE "none"]

World == [live |-> live, launch |-> launch, data |-> data, store |-> store,
          calls |-> <<>>]

\* The main window after __init__: no profile selected, every action button
\* disabled, no worker.
NoGui == [current |-> "-", enabled |-> {}, workers |-> <<>>]

\* op before any call.  steam tells whether Steam ran during the last call,
\* escaped that the call raised instead of returning; n counts the calls made and faults the anomalies met; ops and
\* budget are how many of each the scenario allows.
NoOp == [kind |-> "none", profile |-> "-", stack |-> <<>>, auto |-> FALSE,
         steam |-> FALSE,
         escaped |-> FALSE, n |-> 0, faults |-> 0, ops |-> 0, budget |-> 0]

Enables(name, mid) == mid \in EnabledSet(Profile(name, Catalogue[name]))

\* What is missing at start: live config files, snapshots and Resonite data
\* directories of applications a profile enables.
StartFaults(lv, st, dt) ==
      Card({m \in FileCopyModules : lv[m].base = "missing"})
    + Card({<<n, m>> \in ProfileNames \X FileCopyModules :
               Enables(n, m) /\ st[n][m] = NoSnapshot})
    + Card({n \in ProfileNames : Enables(n, "resonite") /\ n \notin dt})

\* The snapshots of the applications the profiles enable.
SnapshotCells == {c \in ProfileNames \X FileCopyModules : Enables(c[1], c[2])}

\* Every profile directory holds its earlier backup, but for the cells in miss.
StoreWithout(miss) ==
    [d \in Dirs |-> [m \in FileCopyModules |->
        IF <<d, m>> \in SnapshotCells \ miss THEN EarlierSnapshot(d, m) ELSE NoSnapshot]]

\* The state the application starts in: the persisted stack, profiles whose
\* directories hold earlier backups, at most MaxFaults things missing.
Init ==
    /\ cfg = Catalogue
    /\ stack \in Stacks
    /\ live \in [FileCopyModules ->
                    {[base |-> b, extra |-> "missing", driver |-> "None"] :
                        b \in {"orig", "missing"}}]
    /\ data \in SUBSET {n \in ProfileNames : Enables(n, "resonite")}
    /\ launch \in {"default"} \cup
                  {n \in data : n \in Range(stack)}
    /\ store \in {StoreWithout(miss) : miss \in {x \in SUBSET SnapshotCells :
                                                    Card(x) <= MaxFaults}}
    /\ StartFaults(live, store, data) <= MaxFaults
    /\ autoMeta = <<>>
    /\ op = [NoOp EXCEPT !.faults = StartFaults(live, store, data),
                         !.ops = 1, !.budget = MaxFaults]
    /\ result = NewResult
    /\ calls = <<>>
    /\ query = "none"
    /\ answer = [kind |-> "none"]
    /\ gui = NoGui
    /\ objs = NoObjs

\* A further call may meet the anomalies the scenario has left.
\* WorkerThread.run has no try: after a call that raised, finished is never
\* emitted and the window stays busy.
Budget(env) ==
    /\ ~op.escaped
    /\ op.n < op.ops
    /\ op.faults + Faults(env) <= op.budget

Called(kind, p, stk, auto, env, escaped) ==
    [kind |-> kind, profile |-> p, stack |-> stk, auto |-> auto,
     steam |-> env.steam, escaped |-> escaped,
     n |-> op.n + 1, faults |-> op.faults + Faults(env),
     ops |-> op.ops, budget |-> op.budget]

\* The effects of a call and, when it returned, the result handed to on_done.
Commit(out) ==
    /\ live' = out.w.live
    /\ launch' = out.w.launch
    /\ data' = out.w.data
    /\ store' = out.w.store
    /\ calls' = out.w.calls
    /\ result' = IF out.escaped THEN result ELSE out.r

\* AppSettings.stack_push: the name goes on top of the persisted stack.
stack_push(names, p) == Append(names, p)

\* Faulty variant: every load that returns is committed.
CommitLoadAlways(out) == ~out.escaped

\* on_done of _do_load_profile: if result.success, the stack change is
\* committed; on_done does not run when the worker's function raised.
CommitLoad(out) == ~out.escaped /\ out.r.success

\* MainWindow._do_load_profile: load_into_stack on a worker, then on_done.
LoadProfile(p, auto, env) ==
    /\ Budget(env)
    /\ p \notin Range(stack)
    /\ enabled_modules(get_profile(p)) # <<>>
    /\ \E out \in {load_into_stack(World, get_profile(p), StackProfiles(stack), auto, env)} :
           /\ Commit(out)
           /\ autoMeta' = IF out.meta = <<>> THEN autoMeta ELSE out.meta
           /\ stack' = IF CommitLoad(out) THEN stack_push(stack, p) ELSE stack
           /\ op' = Called("load", p, stack, auto, env, out.escaped)
    /\ UNCHANGED <<cfg, query, answer, gui, objs>>

Without(names, p) == SelectSeq(names, LAMBDA x : x # p)

\* MainWindow._do_unload_profile: unload_from_stack on a worker, then on_done.
UnloadProfile(p, env) ==
    /\ Budget(env)
    /\ p \in Range(stack)
    /\ \E out \in {unload_from_stack(World, get_profile(p),
                                      StackProfiles(Without(stack, p)), env)} :
           /\ Commit(out)
           /\ stack' = IF out.escaped THEN stack ELSE Without(stack, p)
           /\ op' = Called("unload", p, Without(stack, p), FALSE, env, out.escaped)
    /\ UNCHANGED <<cfg, autoMeta, query, answer, gui, objs>>

\* MainWindow._on_backup: backup_to_profile on a worker.
BackupProfile(p, env) ==
    /\ Budget(env)
    /\ \E out \in {backup_to_profile(World, get_profile(p), env)} :
           /\ Commit(out)
           /\ op' = Called("backup", p, stack, FALSE, env, out.escaped)
    /\ UNCHANGED <<cfg, stack, autoMeta, query, answer, gui, objs>>

\* EnvsWithin(k): the environments with at most k anomalies.
EnvTable == [k \in 0..MaxFaults |-> {e : e \in {x \in Envs : Faults(x) <= k}}]

EnvsWithin(k) == IF k \in DOMAIN EnvTable THEN EnvTable[k] ELSE {}

\* The environments a call can tell apart: what the call never reads is
\* nominal.  Backups read bio, restores rio; only Resonite reads the Steam
\* facts and only a load asks whether a file-copy application runs.
ReadBy(e, kind, en, auto) ==
    /\ \A m \in FileCopyModules :
          /\ (m \notin en \/ kind = "unload" \/ (kind = "load" /\ ~auto))
                => e.bio[m] = "ok"
          /\ (m \notin en \/ kind = "backup") => e.rio[m] = "ok"
    /\ "resonite" \notin en =>
          ("resonite" \notin e.running /\ ~e.steam /\ e.vdf /\ e.probe = "ok")
    /\ kind = "backup" => (~e.steam /\ e.vdf)
    /\ e.mio \in CASE kind = "backup" -> {"ok", "save"}
                   [] kind = "load" /\ auto -> {"ok", "mkdir", "write", "touch"}
                   [] kind = "load" -> {"ok", "touch"}
                   [] OTHER -> {"ok"}
    /\ \A m \in FileCopyModules :
          (m \notin en \/ kind # "load") => m \notin e.running

Read(e, kind, p, auto) == ReadBy(e, kind, EnabledSet(get_profile(p)), auto)

Left == IF op.n < op.ops /\ ~op.escaped THEN op.budget - op.faults ELSE 0 - 1

Next ==
    \/ \E p \in ProfileNames \ Range(stack), auto \in BOOLEAN :
          \E env \in {e \in EnvsWithin(Left) : Read(e, "load", p, auto)} :
             LoadProfile(p, auto, env)
    \/ \E p \in Range(stack) :
          \E env \in {e \in EnvsWithin(Left) : Read(e, "unload", p, FALSE)} :
             UnloadProfile(p, env)
    \/ \E p \in ProfileNames :
          \E env \in {e \in EnvsWithin(Left) : Read(e, "backup", p, FALSE)} :
             BackupProfile(p, env)

Spec == Init /\ [][Next]_vars

(***************************************************************************)
(* Sequences of calls: the application starts with an empty stack, every   *)
(* profile backed up earlier, and nothing goes wrong                       *)
(***************************************************************************)
\* ProfileManager.get_auto_backup: the Profile read from __last_backup.
get_auto_backup == Profile(AUTO_BACKUP_NAME, autoMeta)

\* MainWindow._on_undo_last: load_profile(auto_backup, auto_backup_first=False)
\* on a worker; the stack is left as it is.
UndoLast(env) ==
    /\ Budget(env)
    /\ autoMeta # <<>>
    /\ \E out \in {load_into_stack(World, get_auto_backup, <<>>, FALSE, env)} :
           /\ Commit(out)
           /\ op' = Called("undo", AUTO_BACKUP_NAME, <<>>, FALSE, env, out.escaped)
    /\ UNCHANGED <<cfg, stack, autoMeta, query, answer, gui, objs>>

\* The earlier backups of the cells in ex also hold the second config file.
StoreWithExtra(ex) ==
    [d \in Dirs |-> [m \in FileCopyModules |->
        IF <<d, m>> \in ex THEN [StoreWithout({})[d][m] EXCEPT !.extra = d]
        ELSE StoreWithout({})[d][m]]]

\* The main config file of every application exists; the second one exists
\* for some, and some earlier backups hold one.
InitSeq ==
    /\ cfg = Catalogue
    /\ stack = <<>>
    /\ live \in [FileCopyModules ->
                    {[base |-> "orig", extra |-> x, driver |-> "None"] :
                        x \in {"orig", "missing"}}]
    /\ data = {n \in ProfileNames : Enables(n, "resonite")}
    /\ launch = "default"
    /\ store \in {StoreWithExtra(ex) : ex \in SUBSET SnapshotCells}
    /\ autoMeta = <<>>
    /\ op = [NoOp EXCEPT !.ops = MaxOps]
    /\ result = NewResult
    /\ calls = <<>>
    /\ query = "none"
    /\ answer = [kind |-> "none"]
    /\ gui = NoGui
    /\ objs = NoObjs

NextSeq ==
    \/ Next
    \/ \E env \in {e \in EnvsWithin(Left) :
                       ReadBy(e, "load", EnabledSet(get_auto_backup), FALSE)} :
          UndoLast(env)

SpecSeq == InitSeq /\ [][NextSeq]_vars

(***************************************************************************)
(* Sequences of loads and unloads alone, from an empty stack: the window   *)
(* commits each to the stack, nothing else touches the live configs.       *)
(***************************************************************************)
InitStack ==
    /\ cfg = Catalogue
    /\ stack = <<>>
    /\ live \in [FileCopyModules ->
                    {[base |-> "orig", extra |-> x, driver |-> "None"] :
                        x \in {"orig", "missing"}}]
    /\ data = {n \in ProfileNames : Enables(n, "resonite")}
    /\ launch = "default"
    /\ store \in {StoreWithExtra(ex) : ex \in SUBSET SnapshotCells}
    /\ autoMeta = <<>>
    /\ op = [NoOp EXCEPT !.ops = MaxStackOps]
    /\ result = NewResult
    /\ calls = <<>>
    /\ query = "none"
    /\ answer = [kind |-> "none"]
    /\ gui = NoGui
    /\ objs = NoObjs

NextStack ==
    \/ \E p \in ProfileNames \ Range(stack), auto \in BOOLEAN :
          \E env \in {e \in EnvsWithin(Left) : Read(e, "load", p, auto)} :
             LoadProfile(p, auto, env)
    \/ \E p \in Range(stack) :
          \E env \in {e \in EnvsWithin(Left) : Read(e, "unload", p, FALSE)} :
             UnloadProfile(p, env)

SpecStack == InitStack /\ [][NextStack]_vars

(***************************************************************************)
(* The main window (gui/app.py): what the user can do while a worker runs. *)
(* gui.enabled holds the enabled ones of the buttons Save, Load/Unload,    *)
(* Undo and Delete; gui.workers the started WorkerThreads not yet          *)
(* finished, each with the arguments its closure captured.                 *)
(***************************************************************************)
\* MainWindow._show_profile: the selected profile's buttons are enabled.
ShowProfile(g, p) ==
    [g EXCEPT !.current = p, !.enabled = @ \cup {"backup", "load", "delete"}]

\* MainWindow._set_no_profile
SetNoProfile(g) ==
    [g EXCEPT !.current = "-", !.enabled = @ \ {"backup", "load", "delete"}]

\* MainWindow._set_busy(busy): Save and Load follow the selection, Undo the
\* existence of the auto-backup directory; no other widget is touched.
set_busy(g, busy, hasAuto) ==
    [g EXCEPT !.enabled =
        (@ \ {"backup", "load", "undo"})
        \cup (IF ~busy /\ g.current # "-" THEN {"backup", "load"} ELSE {})
        \cup (IF ~busy /\ hasAuto THEN {"undo"} ELSE {})]

\* MainWindow._run_worker: a WorkerThread is started; nothing is checked.
run_worker(g, job) == [g EXCEPT !.workers = Append(@, job)]

Job(kind, p, stk, auto, meta) ==
    [kind |-> kind, profile |-> p, stack |-> stk, auto |-> auto, meta |-> meta]

\* self._set_busy(True) ... self._run_worker(fn, on_done)
StartWorker(g, job) ==
    /\ op.n < op.ops
    /\ gui' = run_worker(set_busy(g, TRUE, autoMeta # <<>>), job)
    /\ op' = [op EXCEPT !.n = @ + 1]

\* MainWindow._on_profile_selected
SelectProfile(p) ==
    /\ gui' = ShowProfile(gui, p)
    /\ UNCHANGED <<cfg, stack, live, launch, data, store, autoMeta, op, result,
                   calls, query, answer, objs>>

\* MainWindow._choose_save_target: the selected profile, or with several
\* active profiles any of them.
SaveTargets ==
    IF Len(stack) <= 1 THEN {gui.current} ELSE {gui.current} \cup Range(stack)

\* MainWindow._on_backup
OnBackup ==
    /\ gui.current # "-"
    /\ \E p \in SaveTargets : StartWorker(gui, Job("backup", p, stack, FALSE, <<>>))
    /\ UNCHANGED <<cfg, stack, live, launch, data, store, autoMeta, result,
                   calls, query, answer, objs>>

\* MainWindow._on_load_profile: unload when the profile is active, else load.
OnLoad ==
    /\ gui.current # "-"
    /\ IF gui.current \in Range(stack)
       THEN StartWorker(gui, Job("unload", gui.current,
                                 Without(stack, gui.current), FALSE, <<>>))
       ELSE /\ enabled_modules(get_profile(gui.current)) # <<>>
            /\ \E auto \in BOOLEAN :
                  StartWorker(gui, Job("load", gui.current, stack, auto, <<>>))
    /\ UNCHANGED <<cfg, stack, live, launch, data, store, autoMeta, result,
                   calls, query, answer, objs>>

\* MainWindow._on_undo_last
OnUndo ==
    /\ autoMeta # <<>>
    /\ StartWorker(gui, Job("undo", AUTO_BACKUP_NAME, <<>>, FALSE, autoMeta))
    /\ UNCHANGED <<cfg, stack, live, launch, data, store, autoMeta, result,
                   calls, query, answer, objs>>

\* MainWindow._on_delete_profile of an active profile: it leaves the stack
\* at once and a worker unloads it; then no profile is selected.
OnDelete ==
    /\ gui.current \in Range(stack)
    /\ op.n < op.ops
    /\ stack' = Without(stack, gui.current)
    /\ gui' = SetNoProfile(
                 run_worker(set_busy(gui, TRUE, autoMeta # <<>>),
                            Job("unload", gui.current, Without(stack, gui.current),
                                FALSE, <<>>)))
    /\ op' = [op EXCEPT !.n = @ + 1]
    /\ UNCHANGED <<cfg, live, launch, data, store, autoMeta, result,
                   calls, query, answer, objs>>

\* The buttons: a disabled button cannot be clicked.
ClickBackup == "backup" \in gui.enabled /\ OnBackup
ClickLoad   == "load" \in gui.enabled /\ OnLoad
ClickUndo   == "undo" \in gui.enabled /\ OnUndo
ClickDelete == "delete" \in gui.enabled /\ OnDelete

\* MainWindow._show_profile_context_menu: the entries call the same handlers
\* and are never disabled.
MenuBackup == OnBackup
MenuLoad   == OnLoad
MenuDelete == OnDelete

\* The orders the active profiles can be dragged into.
Reorders(names) ==
    {s \in Stacks : Len(s) = Len(names) /\ Range(s) = Range(names) /\ s # names}

\* MainWindow._on_stack_reorder: the new order is committed; when a profile of
\* the stack enables Resonite a worker re-applies the winning profile's
\* launch options.
DragReorder(new) ==
    /\ stack' = new
    /\ LET resolution == resolve_stack(StackProfiles(new)) IN
       IF "resonite" \in DOMAIN resolution
       THEN StartWorker(gui, Job("reapply", resolution["resonite"].name, new,
                                 FALSE, <<>>))
       ELSE /\ gui' = IF gui.current # "-" THEN ShowProfile(gui, gui.current)
                      ELSE gui
            /\ op' = op
    /\ UNCHANGED <<cfg, live, launch, data, store, autoMeta, result,
                   calls, query, answer, objs>>

\* Nothing goes wrong and nothing runs while a worker works.
Nominal == CHOOSE e \in EnvsWithin(0) : e.running = {}

\* What the worker's function returns: [w, r, meta, escaped].
RunJob(w, job) ==
    CASE job.kind = "load" ->
            load_into_stack(w, get_profile(job.profile), StackProfiles(job.stack),
                            job.auto, Nominal)
      [] job.kind = "undo" ->
            load_into_stack(w, Profile(AUTO_BACKUP_NAME, job.meta), <<>>, FALSE,
                            Nominal)
      [] job.kind = "unload" ->
            [meta |-> <<>>] @@
            unload_from_stack(w, get_profile(job.profile), StackProfiles(job.stack),
                              Nominal)
      [] job.kind = "backup" ->
            [meta |-> <<>>] @@ backup_to_profile(w, get_profile(job.profile), Nominal)
      [] OTHER ->
            LET t == ResoniteRestore(w, profile_dir(job.profile), Nominal)
            IN  [w |-> Log(t.w, "restore", "resonite", job.profile,
                           make_module(get_profile(job.profile), "resonite"),
                           RetName(t)),
                 r |-> IF t.ok THEN SetModuleResult(NewResult, "resonite", TRUE, t.msg)
                       ELSE AddError(SetModuleResult(NewResult, "resonite", FALSE, t.msg),
                                     "resonite", t.msg),
                 meta |-> <<>>, escaped |-> FALSE]

\* The on_done callback of each kind of worker, after _set_busy(False).
OnDone(g, job, out) ==
    CASE job.kind = "load" /\ out.r.success -> ShowProfile(g, job.profile)
      [] job.kind \in {"unload", "reapply"} /\ g.current # "-" ->
            ShowProfile(g, g.current)
      [] OTHER -> g

\* WorkerThread.run and the finished signal: the worker's function runs on
\* the state it finds, then on_done runs in the window.
WorkerDone(i) ==
    LET job == gui.workers[i]
        rest == [k \in 1..(Len(gui.workers) - 1) |->
                    IF k < i THEN gui.workers[k] ELSE gui.workers[k + 1]]
    IN  \E out \in {RunJob(World, job)} :
          /\ Commit(out)
          /\ autoMeta' = IF out.meta = <<>> \/ job.kind = "undo" THEN autoMeta
                          ELSE out.meta
          /\ stack' = CASE job.kind = "load" /\ CommitLoad(out)
                                /\ job.profile \notin Range(stack)
                              -> stack_push(stack, job.profile)
                         [] job.kind = "unload" -> Without(stack, job.profile)
                         [] OTHER -> stack
          /\ gui' = OnDone(set_busy([gui EXCEPT !.workers = rest], FALSE,
                                    autoMeta' # <<>>),
                           job, out)
          /\ op' = [op EXCEPT !.kind = job.kind, !.profile = job.profile,
                              !.stack = job.stack, !.auto = job.auto,
                              !.escaped = out.escaped]
          /\ UNCHANGED <<cfg, query, answer, objs>>

\* What the earlier session left: every application a profile of the
\* persisted stack covers was restored from its owner, the others never.
RECURSIVE ApplyOwners(_, _, _)
ApplyOwners(w, resolution, i) ==
    IF i > Len(MODULE_REGISTRY) THEN w
    ELSE LET mid == MODULE_REGISTRY[i] IN
         ApplyOwners(IF mid \in DOMAIN resolution
                     THEN ModuleRestore(w, mid, profile_dir(resolution[mid].name),
                                        make_module(resolution[mid], mid), Nominal).w
                     ELSE w,
                     resolution, i + 1)

SessionWorld(names) ==
    ApplyOwners([live   |-> [m \in FileCopyModules |->
                               [base |-> "orig", extra |-> "missing", driver |-> "None"]],
                 launch |-> "default",
                 data   |-> {n \in ProfileNames : Enables(n, "resonite")},
                 store  |-> StoreWithout({}),
                 calls  |-> <<>>],
                resolve_stack([i \in 1..Len(names) |->
                                  Profile(names[i], Catalogue[names[i]])]),
                1)

\* The window at start: the persisted stack, every profile backed up, the
\* live configs as the earlier session left them.
InitGui ==
    /\ cfg = Catalogue
    /\ stack \in Stacks
    /\ \E w \in {SessionWorld(stack)} : live = w.live /\ launch = w.launch
    /\ data = {n \in ProfileNames : Enables(n, "resonite")}
    /\ store = StoreWithout({})
    /\ autoMeta = <<>>
    /\ op = [NoOp EXCEPT !.ops = MaxOps]
    /\ result = NewResult
    /\ calls = <<>>
    /\ query = "none"
    /\ answer = [kind |-> "none"]
    /\ gui = NoGui
    /\ objs = NoObjs

NextGui ==
    \/ \E p \in ProfileNames : SelectProfile(p)
    \/ ClickBackup
    \/ ClickLoad
    \/ ClickUndo
    \/ ClickDelete
    \/ MenuBackup
    \/ MenuLoad
    \/ MenuDelete
    \/ \E new \in Reorders(stack) : DragReorder(new)
    \/ \E i \in 1..Len(gui.workers) : WorkerDone(i)

SpecGui == InitGui /\ [][NextGui]_vars

(***************************************************************************)
(* The stack queries on their own: resolve_stack and check_stack_conflicts *)
(* applied to every stack of distinct profiles, every profile enabling any *)
(* set of the modelled applications.                                       *)
(***************************************************************************)
Shapes == [ProfileNames -> SUBSET ModelledModules]

ProfileOf(shape, name) == Profile(name, ModulesOf(shape[name], "None"))

Queries ==
    {[incoming |-> ProfileOf(sh, inc),
      stack    |-> [i \in 1..Len(stk) |-> ProfileOf(sh, stk[i])]] :
        sh \in Shapes, inc \in ProfileNames, stk \in Stacks}

InitResolve ==
    /\ cfg = Catalogue
    /\ stack = <<>>
    /\ live = [m \in FileCopyModules |->
                  [base |-> "orig", extra |-> "missing", driver |-> "None"]]
    /\ launch = "default"
    /\ data = {}
    /\ store = StoreWithout(SnapshotCells)
    /\ autoMeta = <<>>
    /\ op = NoOp
    /\ result = NewResult
    /\ calls = <<>>
    /\ query \in Queries
    /\ answer = [kind |-> "none"]
    /\ gui = NoGui
    /\ objs = NoObjs

\* Switcher.resolve_stack(stack)
ResolveStack ==
    /\ answer = [kind |-> "none"]
    /\ answer' = [kind |-> "resolve", resolution |-> resolve_stack(query.stack)]
    /\ UNCHANGED <<cfg, stack, live, launch, data, store, autoMeta, op, result,
                   calls, query, gui, objs>>

\* Switcher.check_stack_conflicts(incoming, stack)
CheckStackConflicts ==
    /\ answer = [kind |-> "none"]
    /\ answer' = [kind |-> "conflicts",
                  conflicts |-> check_stack_conflicts(query.incoming, query.stack)]
    /\ UNCHANGED <<cfg, stack, live, launch, data, store, autoMeta, op, result,
                   calls, query, gui, objs>>

\* Switcher.check_conflicts(incoming), whatever applications are running.
CheckConflicts ==
    /\ answer = [kind |-> "none"]
    /\ \E running \in SUBSET ModelledModules :
          answer' = [kind |-> "app_conflicts", running |-> running,
                     conflicts |-> check_conflicts(query.incoming,
                                                   [running |-> running])]
    /\ UNCHANGED <<cfg, stack, live, launch, data, store, autoMeta, op, result,
                   calls, query, gui, objs>>

NextResolve == ResolveStack \/ CheckStackConflicts \/ CheckConflicts

SpecResolve == InitResolve /\ [][NextResolve]_vars

(***************************************************************************)
(* The file-copy backup on its own (VRModule.backup): every list of up to  *)
(* MaxPaths config paths, each existing or not, each copy working or not,  *)
(* over a destination directory that holds an earlier copy or not.         *)
(***************************************************************************)
\* SlimeVRModule.CONFIG_FILES: the names of the first config paths.
CONFIG_FILES == <<"vrconfig.yml", "calibration.json", "bonelengths.json",
                  "osc.json", "vmc.json", "filtering.json",
                  "tapDetection.json", "overlayconfig.yml">>

\* The first n config paths, existing ("new") or not ("missing").
PathLists(n) ==
    {[i \in 1..n |-> [name |-> CONFIG_FILES[i], content |-> c[i]]] :
        c \in [1..n -> {"new", "missing"}]}

\* One backup call: the paths, the outcome of each copy (only an existing
\* path is copied) and what the destination directory holds.
BackupInputs ==
    UNION {{[paths |-> ps, io |-> io, dest |-> d] :
              ps \in PathLists(n),
              io \in [1..n -> {"ok", "err"}],
              d \in [{CONFIG_FILES[i] : i \in 1..n} -> {"old", "none"}]} :
           n \in 0..MaxPaths}

InitBackup ==
    /\ cfg = Catalogue
    /\ stack = <<>>
    /\ live = [m \in FileCopyModules |->
                  [base |-> "orig", extra |-> "missing", driver |-> "None"]]
    /\ launch = "default"
    /\ data = {}
    /\ store = StoreWithout(SnapshotCells)
    /\ autoMeta = <<>>
    /\ op = NoOp
    /\ result = NewResult
    /\ calls = <<>>
    /\ query \in {q \in BackupInputs :
                    \A i \in 1..Len(q.paths) :
                        q.paths[i].content = "missing" => q.io[i] = "ok"}
    /\ answer = [kind |-> "none"]
    /\ gui = NoGui
    /\ objs = NoObjs

\* module.backup(dest_dir) of an application using the default implementation.
DefaultBackup ==
    /\ answer = [kind |-> "none"]
    /\ answer' = [kind |-> "backup"] @@ backup(query.paths, query.io, query.dest)
    /\ UNCHANGED <<cfg, stack, live, launch, data, store, autoMeta, op, result,
                   calls, query, gui, objs>>

NextBackup == DefaultBackup

SpecBackup == InitBackup /\ [][NextBackup]_vars

(***************************************************************************)
(* The Profile objects of one run of the program: profiles are created     *)
(* (the editor's blank Profile, create_profile) or read from profile.json, *)
(* and the editor's accept handler sets their flags and options.  A        *)
(* profile.json written by an earlier version may lack the SteamVR entry.  *)
(***************************************************************************)
\* The modules a profile.json of the name may hold.
ParsedModules(name) ==
    {Catalogue[name],
     SelectSeq(Catalogue[name], LAMBDA e : e.id # "steamvr")}

InitObjects ==
    /\ cfg = Catalogue
    /\ stack = <<>>
    /\ live = [m \in FileCopyModules |->
                  [base |-> "orig", extra |-> "missing", driver |-> "None"]]
    /\ launch = "default"
    /\ data = {}
    /\ store = StoreWithout(SnapshotCells)
    /\ autoMeta = <<>>
    /\ op = NoOp
    /\ result = NewResult
    /\ calls = <<>>
    /\ query = [kind |-> "none"]
    /\ answer = [kind |-> "none"]
    /\ gui = NoGui
    /\ objs = NoObjs

\* ProfileEditorDialog.__init__ without a profile, ProfileManager.create_profile
CreateProfileObject ==
    \E name \in ProfileNames :
        /\ name \notin DOMAIN objs.profiles
        /\ objs' = NewProfile(objs, name)
        /\ UNCHANGED <<cfg, stack, live, launch, data, store, autoMeta, op,
                       result, calls, query, answer, gui>>

\* ProfileManager.get_profile / list_profiles: _load_profile_dir
ReadProfileObject ==
    \E name \in ProfileNames : \E parsed \in ParsedModules(name) :
        /\ name \notin DOMAIN objs.profiles
        /\ objs' = from_dict(objs, name, parsed)
        /\ UNCHANGED <<cfg, stack, live, launch, data, store, autoMeta, op,
                       result, calls, query, answer, gui>>

\* ProfileEditorDialog._on_accept: one module checkbox
SetModuleEnabled ==
    \E name \in DOMAIN objs.profiles : \E mid \in ModelledModules :
    \E enabled \in BOOLEAN :
        /\ objs' = set_module_enabled(objs, name, mid, enabled)
        /\ UNCHANGED <<cfg, stack, live, launch, data, store, autoMeta, op,
                       result, calls, query, answer, gui>>

\* ProfileEditorDialog._on_accept: the SteamVR driver combo box
SetModuleOption ==
    \E name \in DOMAIN objs.profiles : \E d \in Drivers :
        /\ objs' = set_module_option(objs, name, "steamvr", "active_driver", d)
        /\ UNCHANGED <<cfg, stack, live, launch, data, store, autoMeta, op,
                       result, calls, query, answer, gui>>

NextObjects ==
    \/ CreateProfileObject
    \/ ReadProfileObject
    \/ SetModuleEnabled
    \/ SetModuleOption

SpecObjects == InitObjects /\ [][NextObjects]_vars

(***************************************************************************)
(* What the claims speak of, read off the profile records themselves       *)
(***************************************************************************)
\* The applications whose record in a modules dict has enabled = true.
AppsOf(modules) == {modules[i].id : i \in {j \in 1..Len(modules) : modules[j].enabled}}

Apps(profile) == AppsOf(profile.modules)

AllApps == Range(MODULE_REGISTRY)

\* The indices of a stack (of Profile objects) whose profile enables X.
Enabling(stk, X) == {i \in 1..Len(stk) : X \in Apps(stk[i])}

Top(S) == CHOOSE i \in S : \A j \in S : j <= i

\* C1: resolve_stack maps every application X to the profile at the highest
\* index of the stack whose enabled set contains X, and X is absent from the
\* result exactly when no profile of the stack enables X.
C1_ResolveHighestWins ==
    (answer.kind = "resolve") =>
        \A X \in AllApps :
            /\ (X \in DOMAIN answer.resolution) <=> (Enabling(query.stack, X) # {})
            /\ Enabling(query.stack, X) # {} =>
                  answer.resolution[X] = query.stack[Top(Enabling(query.stack, X))]

\* C1 witness: two profiles of the stack enable X, the higher one owns it,
\* and some application nobody enables is absent.
C1_Witness ==
    /\ answer.kind = "resolve"
    /\ Len(query.stack) >= 2
    /\ \E X \in AllApps :
          /\ {1, 2} \subseteq Enabling(query.stack, X)
          /\ Top(Enabling(query.stack, X)) = 2
          /\ answer.resolution[X].name = query.stack[2].name
    /\ \E Y \in ModelledModules : Y \notin DOMAIN answer.resolution

\* C10: check_stack_conflicts reports exactly one conflict per (application,
\* active profile) pair in which the active profile's name differs from the
\* incoming one and both enable the application, and nothing else; none
\* against an entry sharing the incoming name, none when the sets are disjoint.
C10_StackConflicts ==
    (answer.kind = "conflicts") =>
        LET cs == answer.conflicts
            Overlap(i) == Apps(query.stack[i]) \cap Apps(query.incoming)
        IN  /\ \A i \in 1..Len(query.stack) :
                  query.stack[i].name # query.incoming.name =>
                      \A X \in Overlap(i) :
                          Cardinality({k \in 1..Len(cs) :
                              /\ cs[k].module_id = X
                              /\ cs[k].active_profile = query.stack[i].name}) = 1
            /\ \A k \in 1..Len(cs) :
                  /\ cs[k].incoming_profile = query.incoming.name
                  /\ cs[k].active_profile # query.incoming.name
                  /\ \E i \in 1..Len(query.stack) :
                        /\ query.stack[i].name = cs[k].active_profile
                        /\ cs[k].module_id \in Overlap(i)
            /\ (\A i \in 1..Len(query.stack) : Overlap(i) = {}) => cs = <<>>

\* C10 witness: the stack holds an entry sharing the incoming name that
\* enables a common application, and a differently named entry is reported.
C10_Witness ==
    /\ answer.kind = "conflicts"
    /\ \E i \in 1..Len(query.stack) :
          /\ query.stack[i].name = query.incoming.name
          /\ Apps(query.stack[i]) \cap Apps(query.incoming) # {}
    /\ Len(answer.conflicts) >= 2

(***************************************************************************)
(* The last orchestrator call, as the claims speak of it                   *)
(***************************************************************************)
\* The applications the profile of the last call enables.
OpApps == AppsOf(cfg[op.profile])

\* The per-application record of a profile on disk.
RecordOf(name, X) == cfg[name][CHOOSE i \in 1..Len(cfg[name]) : cfg[name][i].id = X]

\* The positions of a stack of names whose profile enables X.
Covering(names, X) == {i \in 1..Len(names) : X \in AppsOf(cfg[names[i]])}

\* The owner of X in a stack of names: the highest position enabling it.
FallbackName(names, X) == names[Top(Covering(names, X))]

\* The positions of the call log where call was invoked on application X.
CallsAt(log, call, X) == {i \in 1..Len(log) : log[i].call = call /\ log[i].mid = X}

\* The directory of a profile holds a backup of X.
HasBackup(name, X) ==
    IF X = "resonite" THEN name \in data ELSE store[name][X].base # "none"

\* The live state of X is what the directory of profile name holds.
LiveIs(name, X) ==
    IF X = "resonite" THEN launch = name
    ELSE /\ store[name][X].base # "none"
         /\ live[X].base = store[name][X].base

Labels(pairs) == {pairs[i][1] : i \in 1..Len(pairs)}

\* C2: load_into_stack and unload_from_stack invoke backup, restore, reload
\* and the default revert only on applications the profile they are called
\* with enables; the live state of every other application is unchanged.
C2_OnlyEnabledTouched ==
    [][(op'.n = op.n + 1 /\ op'.kind \in {"load", "unload"}) =>
          LET en == AppsOf(cfg[op'.profile]) IN
          /\ \A i \in 1..Len(calls') :
                calls'[i].call \in {"backup", "validate_backup", "restore",
                                    "trigger_reload", "remove_launch_args"}
                    => calls'[i].mid \in en
          /\ \A m \in FileCopyModules \ en : live'[m] = live[m]
          /\ "resonite" \notin en => launch' = launch]_vars

\* C2 witness: Gaming (tracking server and SteamVR only) was unloaded and its
\* applications restored, while Resonite still points at the Social profile.
C2_Witness ==
    /\ op.kind = "unload" /\ op.profile = "Gaming"
    /\ "resonite" \notin OpApps
    /\ launch = "Social"
    /\ \E i \in 1..Len(calls) : calls[i].call = "restore" /\ calls[i].ret = "ok"

\* C3 as stated: in unload_from_stack every application X enabled by the
\* unloaded profile and by a remaining profile has its restore invoked from
\* the directory of the remaining stack's owner of X, with that owner's options.
C3_FallbackAlwaysRestored ==
    op.kind = "unload" =>
        \A X \in OpApps :
            Covering(op.stack, X) # {} =>
                \E i \in CallsAt(calls, "restore", X) :
                    /\ calls[i].arg = FallbackName(op.stack, X)
                    /\ calls[i].opts = RecordOf(FallbackName(op.stack, X), X).options

\* C3 amended: for such an X the backup of the remaining stack's owner is
\* validated; when it holds a backup of X, X's restore is invoked once, from
\* that directory and with that owner's options (and the live state is the
\* owner's when the restore succeeds); when it holds none, no restore of X is
\* invoked.
C3_FallbackRestoredIfValid ==
    op.kind = "unload" =>
        \A X \in OpApps :
            Covering(op.stack, X) # {} =>
                LET f == FallbackName(op.stack, X)
                    R == CallsAt(calls, "restore", X)
                IN  /\ \E i \in CallsAt(calls, "validate_backup", X) : calls[i].arg = f
                    /\ \A i \in R :
                          /\ calls[i].arg = f
                          /\ calls[i].opts = RecordOf(f, X).options
                          /\ calls[i].ret = "ok" => LiveIs(f, X)
                    /\ HasBackup(f, X) => Cardinality(R) = 1
                    /\ ~HasBackup(f, X) => R = {}

\* C3 witness: Work was unloaded from above Social and Gaming; SteamVR came
\* back from Gaming, the higher of the two, with Gaming's driver option.
C3_Witness ==
    /\ op.kind = "unload" /\ op.profile = "Work"
    /\ op.stack = <<"Social", "Gaming">>
    /\ \E i \in CallsAt(calls, "restore", "steamvr") :
          /\ calls[i].arg = "Gaming"
          /\ calls[i].opts = DriverOptions("leapmotion")
          /\ calls[i].ret = "ok"
    /\ live["steamvr"].base = "Gaming" /\ live["steamvr"].driver = "leapmotion"

\* C4: in unload_from_stack an application X enabled by the unloaded profile
\* and by no remaining profile gets no restore; the default revert runs
\* instead: for Resonite it invokes the removal of the launcher override
\* (the override is gone once the removal reports success), for a file-copy
\* application it does nothing.
C4_UncoveredReverted ==
    [][(op'.n = op.n + 1 /\ op'.kind = "unload") =>
          \A X \in AppsOf(cfg[op'.profile]) :
              Covering(op'.stack, X) = {} =>
                  /\ CallsAt(calls', "restore", X) = {}
                  /\ CallsAt(calls', "validate_backup", X) = {}
                  /\ X = "resonite" =>
                        /\ Cardinality(CallsAt(calls', "remove_launch_args", X)) = 1
                        /\ "resonite_cleanup" \in DOMAIN result'.module_results
                        /\ \A i \in CallsAt(calls', "remove_launch_args", X) :
                              /\ calls'[i].ret = "ok" => launch' = "default"
                              /\ calls'[i].ret = "ok"
                                    <=> result'.module_results["resonite_cleanup"].ok
                  /\ X \in FileCopyModules =>
                        /\ live'[X] = live[X]
                        /\ \A i \in 1..Len(calls') :
                              calls'[i].mid = X => calls'[i].call = "progress"
                        /\ X \notin DOMAIN result'.module_results]_vars

\* C4 witness: Social was unloaded from above Gaming; Resonite, which Gaming
\* does not enable, lost its launcher override and was not restored.
C4_Witness ==
    /\ op.kind = "unload" /\ op.profile = "Social" /\ op.stack = <<"Gaming">>
    /\ CallsAt(calls, "restore", "resonite") = {}
    /\ \E i \in CallsAt(calls, "remove_launch_args", "resonite") : calls[i].ret = "ok"
    /\ launch = "default"
    /\ result.module_results["resonite_cleanup"].ok

\* The last call handed its OperationResult back (it did not raise).
Returned == ~op.escaped

\* The application reached its step of the batch of the last call.
Processed(X) ==
    CASE op.kind = "backup" ->
            \E i \in CallsAt(calls, "backup", X) : calls[i].arg = op.profile
      [] op.kind = "load" ->
            /\ CallsAt(calls, "validate_backup", X) # {}
            /\ X \in DOMAIN result.module_results
      [] op.kind = "unload" ->
            IF Covering(op.stack, X) # {}
            THEN CallsAt(calls, "validate_backup", X) # {}
            ELSE \E i \in CallsAt(calls, "progress", X) : calls[i].arg = "cleanup"

Failed(ret) == ret \in {"fail", "raise"}

\* C5: load_into_stack, unload_from_stack and backup_to_profile process every
\* enabled application whatever happened to the earlier ones; when in a load
\* the restore of M1 fails or raises and that of M2 succeeds, the result holds
\* M1's failure and M2's success, success is false and M2's live state is the
\* restored one.  (Of a call that returns its result.)
C5_NoEarlyAbort ==
    (op.kind \in {"load", "unload", "backup"} /\ Returned) =>
        /\ \A X \in OpApps : Processed(X)
        /\ op.kind = "load" =>
              \A M1, M2 \in OpApps :
                  ( /\ \E i \in CallsAt(calls, "restore", M1) : Failed(calls[i].ret)
                    /\ \E j \in CallsAt(calls, "restore", M2) : calls[j].ret = "ok" )
                  => /\ ~result.module_results[M1].ok
                     /\ M1 \in Labels(result.errors)
                     /\ result.module_results[M2].ok
                     /\ ~result.success
                     /\ LiveIs(op.profile, M2)

\* C5 witness: in a load the restore of one application failed or raised and
\* the restore of a later one succeeded and is live.
C5_Witness ==
    /\ op.kind = "load"
    /\ \E i, j \in 1..Len(calls) :
          /\ i < j
          /\ calls[i].call = "restore" /\ Failed(calls[i].ret)
          /\ calls[j].call = "restore" /\ calls[j].ret = "ok"
          /\ LiveIs(op.profile, calls[j].mid)
          /\ result.module_results[calls[j].mid].ok
    /\ ~result.success

\* C6: for load_into_stack, unload_from_stack and backup_to_profile the
\* result's success is true exactly when no application's backup into, or
\* restore from, a profile directory returned failure or raised.
C6_SuccessIffNoFailure ==
    op.kind \in {"load", "unload", "backup"} =>
        (result.success <=>
            ~ \E i \in 1..Len(calls) :
                  /\ calls[i].call \in {"backup", "restore"}
                  /\ calls[i].arg # AUTO_BACKUP_NAME
                  /\ Failed(calls[i].ret))

\* C7: when validate_backup fails for an application, its restore is not
\* called, a warning and no error is recorded for it, and it does not make the
\* operation fail: success stays true unless some application has an error.
\* (Of a call that returns its result.)
C7_InvalidBackupSkipped ==
    (op.kind \in {"load", "unload"} /\ Returned) =>
        /\ \A i \in 1..Len(calls) :
              (calls[i].call = "validate_backup" /\ calls[i].ret = "fail") =>
                  /\ CallsAt(calls, "restore", calls[i].mid) = {}
                  /\ calls[i].mid \in Labels(result.warnings)
                  /\ calls[i].mid \notin Labels(result.errors)
        /\ result.success <=> result.errors = <<>>

\* C7 witness: a load in which one application had no backup and another was
\* restored; the load succeeded and the profile joined the stack.
C7_Witness ==
    /\ op.kind = "load"
    /\ \E i, j \in 1..Len(calls) :
          /\ calls[i].call = "validate_backup" /\ calls[i].ret = "fail"
          /\ calls[j].call = "restore" /\ calls[j].ret = "ok"
    /\ result.success
    /\ Len(stack) > 0 /\ stack[Len(stack)] = op.profile

IsAutoBackup(c) == c.call = "backup" /\ c.arg = AUTO_BACKUP_NAME

\* C8: with auto_backup_first, load_into_stack takes the auto-backup of every
\* enabled application before the first restore or reload request.  (Of a
\* call that returns its result.)
C8_AutoBackupFirst ==
    (op.kind = "load" /\ op.auto /\ Returned) =>
        /\ \A X \in OpApps : \E i \in CallsAt(calls, "backup", X) : IsAutoBackup(calls[i])
        /\ \A i, j \in 1..Len(calls) :
              ( /\ IsAutoBackup(calls[i])
                /\ calls[j].call \in {"restore", "trigger_reload"} ) => i < j

\* C8 witness: a load with auto-backup of two applications or more, one of
\* them restored and asked to reload.
C8_Witness ==
    /\ op.kind = "load" /\ op.auto
    /\ Cardinality({i \in 1..Len(calls) : IsAutoBackup(calls[i])}) >= 2
    /\ \E j \in 1..Len(calls) : calls[j].call = "restore" /\ calls[j].ret = "ok"
    /\ \E j \in 1..Len(calls) : calls[j].call = "trigger_reload"

\* The profile whose options the auto-backup of X is to use.
AutoOwner(X) ==
    IF Covering(op.stack, X) # {} THEN FallbackName(op.stack, X) ELSE op.profile

\* C9: the auto-backup of application X is taken with the options of the
\* current stack's owner of X and the record written beside it holds that
\* owner's record of X; the incoming profile's are used only when no profile
\* of the stack enables X.  (Of a call that returns its result.)
C9_AutoBackupOwnerOptions ==
    (op.kind = "load" /\ op.auto /\ Returned) =>
        \A X \in OpApps :
            /\ \A i \in CallsAt(calls, "backup", X) :
                  IsAutoBackup(calls[i]) =>
                      calls[i].opts = RecordOf(AutoOwner(X), X).options
            /\ \E i \in 1..Len(autoMeta) :
                  autoMeta[i].id = X /\ autoMeta[i] = RecordOf(AutoOwner(X), X)

\* C9 witness: Social is loaded above Gaming; SteamVR's auto-backup was taken
\* with Gaming's driver option, not Social's, and Resonite's, which no stack
\* profile enables, with Social's own.
C9_Witness ==
    /\ op.kind = "load" /\ op.auto /\ op.profile = "Social"
    /\ op.stack = <<"Gaming">>
    /\ \E i \in CallsAt(calls, "backup", "steamvr") :
          /\ IsAutoBackup(calls[i])
          /\ calls[i].opts = DriverOptions("leapmotion")
          /\ calls[i].opts # RecordOf("Social", "steamvr").options
          /\ calls[i].ret = "ok"
    /\ store[AUTO_BACKUP_NAME]["steamvr"].meta = "leapmotion"
    /\ \E i \in CallsAt(calls, "backup", "resonite") : IsAutoBackup(calls[i])

\* The applications that can reload their config while running.
SupportsLiveReload(X) == X = "steamvr"

\* C11: check_conflicts(profile) returns a ModuleConflict for an enabled
\* application exactly when it is running and does not support live reload
\* (one each, for no other application); an application that can live-reload
\* never appears, running or not.
C11_AppConflicts ==
    answer.kind = "app_conflicts" =>
        LET cs == answer.conflicts IN
        /\ \A X \in AllApps :
              Cardinality({k \in 1..Len(cs) : cs[k].module_id = X}) =
                  IF /\ X \in Apps(query.incoming)
                     /\ X \in answer.running
                     /\ ~SupportsLiveReload(X)
                  THEN 1 ELSE 0
        /\ \A k \in 1..Len(cs) :
              cs[k].module_id \in AllApps /\ ~SupportsLiveReload(cs[k].module_id)

\* C11 witness: the tracking server and SteamVR are both enabled and running;
\* only the tracking server is reported.
C11_Witness ==
    /\ answer.kind = "app_conflicts"
    /\ {"slimevr", "steamvr"} \subseteq Apps(query.incoming) \cap answer.running
    /\ "resonite" \in answer.running \ Apps(query.incoming)
    /\ Len(answer.conflicts) = 1
    /\ answer.conflicts[1].module_id = "slimevr"

\* The applications whose restore (or construction) failed or raised during
\* the call.
RestoreFailures ==
    {X \in AllApps : \E i \in 1..Len(calls) :
        /\ calls[i].mid = X
        /\ calls[i].call \in {"restore", "get_module"}
        /\ Failed(calls[i].ret)}

\* The positions of the call log where last_used of profile name was updated.
Touches(name) ==
    {i \in 1..Len(calls) : calls[i].call = "touch_last_used" /\ calls[i].arg = name}

\* C12: load_into_stack calls touch_last_used on the incoming profile exactly
\* when the overall result is a success (no restore failed or raised): once
\* then, never otherwise, and on no other profile.  (Of a call that returns
\* its result.)
C12_TouchIffSuccess ==
    (op.kind = "load" /\ Returned) =>
        /\ result.success <=> RestoreFailures = {}
        /\ Cardinality(Touches(op.profile)) = IF result.success THEN 1 ELSE 0
        /\ \A i \in 1..Len(calls) :
              calls[i].call = "touch_last_used" => calls[i].arg = op.profile

\* C12 witness: a load in which one restore failed and another succeeded, so
\* that last_used was left alone.
C12_Witness ==
    /\ op.kind = "load"
    /\ RestoreFailures # {}
    /\ \E i \in 1..Len(calls) : calls[i].call = "restore" /\ calls[i].ret = "ok"
    /\ Touches(op.profile) = {}

\* The application reported itself running after its restore.
ReportedRunning(X) ==
    \E i \in CallsAt(calls, "get_status", X) : calls[i].ret = "running"

\* The restore of X from the incoming profile succeeded.
Restored(X) ==
    \E i \in CallsAt(calls, "restore", X) : calls[i].ret = "ok"

\* C13: in load_into_stack, trigger_reload is invoked for an application
\* exactly when its restore succeeded, it reports itself running and it
\* supports live reload (once, after the restore); a failed reload adds a
\* warning and leaves success and the error list as the restores made them.
\* (Of a call that returns its result.)
C13_ReloadWhenDue ==
    (op.kind = "load" /\ Returned) =>
        /\ \A X \in AllApps :
              /\ Cardinality(CallsAt(calls, "trigger_reload", X)) =
                    IF Restored(X) /\ ReportedRunning(X) /\ SupportsLiveReload(X)
                    THEN 1 ELSE 0
              /\ \A j \in CallsAt(calls, "trigger_reload", X) :
                    /\ \E i \in CallsAt(calls, "restore", X) : i < j
                    /\ calls[j].ret = "fail" <=>
                          <<X, "reload trigger failed">> \in Range(result.warnings)
        /\ result.success <=> RestoreFailures = {}
        /\ Labels(result.errors) = RestoreFailures

\* C13 witness: SteamVR and the tracking server were restored while both
\* running; only SteamVR was asked to reload, the reload failed, and the load
\* is still a success with no error.
C13_Witness ==
    /\ op.kind = "load"
    /\ Restored("slimevr") /\ ReportedRunning("slimevr")
    /\ CallsAt(calls, "trigger_reload", "slimevr") = {}
    /\ \E j \in CallsAt(calls, "trigger_reload", "steamvr") : calls[j].ret = "fail"
    /\ result.success /\ result.errors = <<>>
    /\ <<"steamvr", "reload trigger failed">> \in Range(result.warnings)

\* The positions of the call log where profile name's metadata was saved.
Saves(name) ==
    {i \in 1..Len(calls) : calls[i].call = "save_profile_meta" /\ calls[i].arg = name}

\* C14: load_into_stack, unload_from_stack and backup_to_profile always
\* return an OperationResult and let no exception escape, whatever fails:
\* also the creation of the auto-backup directory, the write of its record,
\* the save of the profile metadata and the update of last_used.
C14_NeverRaises ==
    op.kind \in {"load", "unload", "backup"} => Returned

\* C15: backup_to_profile saves the profile's metadata once, after the last
\* application's backup, whatever the backups' outcomes were: also when
\* every one of them failed or raised.
C15_MetaSavedRegardless ==
    op.kind = "backup" =>
        /\ Cardinality(Saves(op.profile)) = 1
        /\ \A X \in OpApps : Processed(X)
        /\ \A i \in Saves(op.profile), j \in 1..Len(calls) :
              calls[j].call \in {"backup", "get_module"} => j < i
        /\ \A i \in 1..Len(calls) :
              calls[i].call = "save_profile_meta" => calls[i].arg = op.profile

\* C15 witness: a backup of two applications in which every application's
\* backup failed or raised, so that the result is a failure, and the
\* metadata was saved all the same.
C15_Witness ==
    /\ op.kind = "backup"
    /\ Cardinality(OpApps) >= 2
    /\ \A X \in OpApps : \E i \in CallsAt(calls, "backup", X) : Failed(calls[i].ret)
    /\ ~result.success
    /\ \E i \in Saves(op.profile) : calls[i].ret = "ok"

\* The applications whose backup and restore are the plain file copy of
\* VRModule (SteamVRModule adds its driver override to both).
PlainFileCopy == {"slimevr"}

\* The config files of X that exist, with their contents.
LiveFiles(lv, X) ==
    {<<f, lv[X][f]>> : f \in {g \in {"base", "extra"} : lv[X][g] # "missing"}}

\* C16: backup_to_profile(P) followed immediately by load_into_stack(P, [])
\* leaves every enabled plain file-copy application with the config files
\* that were live at the backup, and with their contents (both calls
\* succeeding).
C16_BackupLoadRoundTrip ==
    [][( /\ op.kind = "backup" /\ Returned /\ result.success
         /\ op'.n = op.n + 1
         /\ op'.kind = "load" /\ op'.profile = op.profile /\ op'.stack = <<>>
         /\ ~op'.escaped /\ result'.success )
       => \A X \in PlainFileCopy \cap AppsOf(cfg[op.profile]) :
              LiveFiles(live', X) = LiveFiles(live, X)]_vars

\* The auto-backup slot holds a snapshot of X.
SlotHolds(X) ==
    IF X = "resonite" THEN AUTO_BACKUP_NAME \in data
    ELSE store[AUTO_BACKUP_NAME][X] # NoSnapshot

\* The snapshot of X in the slot was taken by the last call.
TakenByLastCall(X) ==
    \E i \in CallsAt(calls, "backup", X) : IsAutoBackup(calls[i]) /\ calls[i].ret = "ok"

\* C17: after a load_into_stack with auto_backup_first the auto-backup slot
\* holds only what was taken immediately before that load: its record, and no
\* snapshot of an application other than those this load backed up; nothing
\* of an earlier load's undo point is left.
C17_SlotHoldsLastLoadOnly ==
    (op.kind = "load" /\ op.auto /\ Returned) =>
        /\ \A X \in OpApps : \E i \in 1..Len(autoMeta) : autoMeta[i].id = X
        /\ \A X \in ModelledModules : SlotHolds(X) => TakenByLastCall(X)

\* C18: the window serializes the user's operations: while one backup, load,
\* unload, undo or reorder worker is in flight no user action starts a second
\* one, so at most one worker runs at any time.
C18_OneWorkerAtATime == Len(gui.workers) <= 1

Phases == {"backup", "restore", "auto_backup", "cleanup"}

\* The positions of the call log where the progress callback announced
\* phase ph of application X.
Announced(X, ph) ==
    {i \in CallsAt(calls, "progress", X) : calls[i].arg = ph}

\* How often the last call has to announce phase ph of application X.
Due(X, ph) ==
    IF X \notin OpApps THEN 0
    ELSE CASE op.kind = "backup" -> IF ph = "backup" THEN 1 ELSE 0
           [] op.kind = "load" ->
                 IF ph = "restore" \/ (ph = "auto_backup" /\ op.auto) THEN 1 ELSE 0
           [] OTHER ->
                 IF ph = (IF Covering(op.stack, X) # {} THEN "restore" ELSE "cleanup")
                 THEN 1 ELSE 0

\* The phase an operation on an application belongs to.
PhaseOf(c) ==
    CASE c.call = "backup" -> IF IsAutoBackup(c) THEN "auto_backup" ELSE "backup"
      [] c.call = "remove_launch_args" -> "cleanup"
      [] OTHER -> "restore"

\* The position of application X in the profile's own mapping.
PosIn(name, X) == CHOOSE i \in 1..Len(cfg[name]) : cfg[name][i].id = X

RegistryPos(X) == CHOOSE i \in 1..Len(MODULE_REGISTRY) : MODULE_REGISTRY[i] = X

\* C20: load_into_stack (also when called through load_profile by Undo)
\* processes the applications the incoming profile enables in registry
\* order, whatever the order of the entries of the profile's own mapping.
C20_RegistryOrder ==
    (op.kind \in {"load", "undo"} /\ Returned) =>
        \A i, j \in 1..Len(calls) :
            ( /\ i < j
              /\ calls[i].call = "progress" /\ calls[i].arg = "restore"
              /\ calls[j].call = "progress" /\ calls[j].arg = "restore" )
            => RegistryPos(calls[i].mid) < RegistryPos(calls[j].mid)

(***************************************************************************)
(* Stack conflicts and ownership                                           *)
(***************************************************************************)
\* The name of the profile that owns X under resolve_stack of the queried
\* stack: the highest entry enabling it.
OwnerName(X) == query.stack[Top(Enabling(query.stack, X))].name

\* The conflicts of the answer that are about application X.
ConflictsAbout(X) ==
    {k \in 1..Len(answer.conflicts) : answer.conflicts[k].module_id = X}

Disjoint(stk) ==
    \A i, j \in 1..Len(stk) : i # j => Apps(stk[i]) \cap Apps(stk[j]) = {}

\* Every ordering of a stack.
Orderings(stk) ==
    {[i \in 1..Len(stk) |-> stk[f[i]]] :
        f \in {g \in [1..Len(stk) -> 1..Len(stk)] :
                  \A a, b \in 1..Len(stk) : a # b => g[a] # g[b]}}

\* C22: when the enabled sets of the profiles of a stack are pairwise
\* disjoint, resolve_stack gives the same mapping for every ordering of the
\* stack, and that mapping gives each application to the one profile that
\* enables it.
C22_DisjointOrderFree ==
    (answer.kind = "resolve" /\ Disjoint(query.stack)) =>
        /\ \A s \in Orderings(query.stack) : resolve_stack(s) = answer.resolution
        /\ \A X \in AllApps :
              /\ X \in DOMAIN answer.resolution <=> Enabling(query.stack, X) # {}
              /\ \A i \in Enabling(query.stack, X) :
                    answer.resolution[X] = query.stack[i]

\* C22 witness: three profiles, each enabling an application of its own,
\* resolved: three owners.
C22_Witness ==
    /\ answer.kind = "resolve"
    /\ Len(query.stack) = 3
    /\ Disjoint(query.stack)
    /\ \A i \in 1..3 : Apps(query.stack[i]) # {}
    /\ Cardinality(DOMAIN answer.resolution) = 3
    /\ \A i \in 1..3 : \E X \in AllApps : answer.resolution[X] = query.stack[i]

(***************************************************************************)
(* The default file-copy backup                                            *)
(***************************************************************************)
\* The config locations of the queried backup that exist, that are missing,
\* and those whose copy raised an error.
Existing == {i \in 1..Len(query.paths) : query.paths[i].content # "missing"}

Missing == {i \in 1..Len(query.paths) : query.paths[i].content = "missing"}

CopyErrors == {i \in Existing : query.io[i] = "err"}

\* C23: the default file-copy backup returns success exactly when no copy
\* raised an error and either a config location was copied or none was
\* missing; with no existing path and at least one expected it reports
\* failure ("nothing to back up"), and with an empty list of config locations
\* it reports success with zero items.
C23_BackupVerdict ==
    answer.kind = "backup" =>
        LET copied == Existing \ CopyErrors IN
        /\ answer.ok <=> (CopyErrors = {} /\ (copied # {} \/ Missing = {}))
        /\ answer.copied = Cardinality(copied)
        /\ (Existing = {} /\ Missing # {}) =>
              (~answer.ok /\ answer.msg = "Nothing to back up")
        /\ query.paths = <<>> => (answer.ok /\ answer.copied = 0)
        /\ \A i \in 1..Len(query.paths) :
              answer.dest[query.paths[i].name] =
                  IF i \in copied THEN query.paths[i].content
                  ELSE query.dest[query.paths[i].name]

\* C23 witness: of three config locations one is missing and the others are
\* copied: the backup is a success with two items, and the missing one's
\* earlier copy is still in the destination.
C23_Witness ==
    /\ answer.kind = "backup"
    /\ Cardinality(Missing) = 1 /\ Cardinality(Existing) = 2 /\ CopyErrors = {}
    /\ answer.ok /\ answer.copied = 2
    /\ \E i \in Missing : answer.dest[query.paths[i].name] = "old"

(***************************************************************************)
(* Steam's launcher settings                                               *)
(***************************************************************************)
\* The positions of a call log where the Resonite module went for Steam's
\* launcher settings file: its restore and its remove_launch_args.
LauncherCalls(log) ==
    {i \in 1..Len(log) : /\ log[i].mid = "resonite"
                         /\ log[i].call \in {"restore", "remove_launch_args"}}

\* C24: the Resonite module never writes Steam's launcher settings file
\* while Steam is running: its restore (also when Resonite itself is
\* running) and its remove_launch_args then return failure, and the launch
\* options are left as they were.
C24_NoWriteWhileSteamRuns ==
    [][(op'.n = op.n + 1 /\ op'.steam) =>
          /\ launch' = launch
          /\ \A i \in LauncherCalls(calls') : calls'[i].ret = "fail"]_vars

(***************************************************************************)
(* The live state under a stack                                            *)
(***************************************************************************)
\* The live state of X is the one a restore from the directory of profile
\* name leaves: every config file the backup holds is live with the backup's
\* content, SteamVR's enabled driver is the one noted with the backup, and
\* Resonite's launch options point at the profile's data directory.
RestoredFrom(name, X) ==
    IF X = "resonite" THEN name \in data /\ launch = name
    ELSE LET snap == store[name][X] IN
         /\ snap.base # "none"
         /\ live[X].base = snap.base
         /\ live[X].driver = IF X = "steamvr" /\ snap.meta # "none"
                             THEN snap.meta ELSE snap.driver
         /\ snap.extra # "none" => live[X].extra = snap.extra

\* C25: from an empty stack, after any sequence of loads and unloads in which
\* every profile has a valid backup and every restore succeeds, the window
\* appending each loaded profile and removing each unloaded one, the live
\* state of every application resolve_stack(stack) gives to a profile is the
\* state restored from that profile's backup.
C25_LiveIsOwners ==
    \A X \in AllApps :
        Covering(stack, X) # {} => RestoredFrom(FallbackName(stack, X), X)

\* C25 witness: after three loads the middle profile was unloaded; SteamVR,
\* which all three enable, is the top profile's, and an application only the
\* bottom profile still enables is the bottom profile's.
C25_Witness ==
    /\ op.kind = "unload" /\ op.n = 4
    /\ Len(stack) = 2
    /\ \A i \in 1..2 : "steamvr" \in AppsOf(cfg[stack[i]])
    /\ "steamvr" \in OpApps
    /\ RestoredFrom(stack[2], "steamvr")
    /\ \E X \in AllApps : Covering(stack, X) = {1} /\ RestoredFrom(stack[1], X)

(***************************************************************************)
(* Undo                                                                    *)
(***************************************************************************)
\* Every backup and restore the last call invoked succeeded.
AllSucceeded(log) ==
    \A i \in 1..Len(log) :
        log[i].call \in {"backup", "validate_backup", "restore"} => log[i].ret = "ok"

\* C26: after a load_into_stack(P, stack, auto_backup_first = true) in which
\* every backup and restore succeeds, the undo (loading the auto-backup
\* profile with an empty stack and no new auto-backup) returns the live state
\* of every application P enables to what it was immediately before the
\* load, the launcher data path included.  Stated of a load that is the
\* first call of a sequence: before it every config file has its original
\* content, no custom driver is enabled and the launch options are the
\* default ones.
C26_UndoRevertsLoad ==
    [][( /\ op.n = 1 /\ op.kind = "load" /\ op.auto /\ Returned
         /\ result.success /\ AllSucceeded(calls)
         /\ op'.n = 2 /\ op'.kind = "undo" /\ ~op'.escaped
         /\ result'.success /\ AllSucceeded(calls') )
       => \A X \in AppsOf(cfg[op.profile]) :
              /\ X = "resonite" => launch' = "default"
              /\ X \in FileCopyModules =>
                    /\ live'[X].base = "orig"
                    /\ live'[X].driver = "None"]_vars

\* C27: the auto-backup record written by a load enables exactly the
\* applications the incoming profile enables, so the undo that follows
\* restores only those and leaves every application the load did not touch
\* as it is, whatever the slot still holds from an earlier load.
C27_UndoTouchesLoadedOnly ==
    [][ /\ (op'.n = op.n + 1 /\ op'.kind = "load" /\ op'.auto /\ ~op'.escaped) =>
              AppsOf(autoMeta') = AppsOf(cfg[op'.profile])
        /\ ( /\ op.kind = "load" /\ op.auto /\ Returned
             /\ op'.n = op.n + 1 /\ op'.kind = "undo" ) =>
              LET en == AppsOf(cfg[op.profile]) IN
              /\ \A i \in 1..Len(calls') :
                    calls'[i].call \in {"validate_backup", "restore", "trigger_reload"}
                        => calls'[i].mid \in en
              /\ \A m \in FileCopyModules \ en : live'[m] = live[m]
              /\ "resonite" \notin en => launch' = launch ]_vars

(***************************************************************************)
(* Who commits the stack                                                   *)
(***************************************************************************)
\* C28: the window commits a load to the active stack only when
\* load_into_stack returned success (the profile then goes on top); after a
\* failed load the stack is as it was before.  An unload is committed, the
\* profile leaving the stack, whatever unload_from_stack returned.  Nothing
\* else changes the stack: the orchestrator leaves the list it is given alone.
C28_StackCommitted ==
    [][(op'.n = op.n + 1) =>
          stack' = CASE op'.kind = "load" ->
                          IF ~op'.escaped /\ result'.success
                          THEN stack \o <<op'.profile>> ELSE stack
                     [] op'.kind = "unload" ->
                          SelectSeq(stack, LAMBDA n : n # op'.profile)
                     [] OTHER -> stack]_vars

\* C28 witness: a load in which one application was restored and another
\* failed returned a failure; the profile is not in the stack.
C28_Witness ==
    /\ op.kind = "load" /\ Returned /\ ~result.success
    /\ \E i \in 1..Len(calls) : calls[i].call = "restore" /\ calls[i].ret = "ok"
    /\ op.profile \notin Range(stack)
    /\ stack = op.stack

(***************************************************************************)
(* Reordering the stack                                                    *)
(***************************************************************************)
\* C29: after the user reorders the active stack (and the worker the reorder
\* started has finished), the live state of every application the stack
\* covers is that of its owner under resolve_stack of the new order: every
\* application whose owner changed is restored from the new owner, not
\* Resonite alone.  Stated of a reorder that is the first thing the user does
\* in a session, the live configs being those of the earlier owners.
C29_ReorderReapplies ==
    (op.kind = "reapply" /\ op.n = 1 /\ gui.workers = <<>> /\ Returned) =>
        \A X \in AllApps :
            Covering(stack, X) # {} => RestoredFrom(FallbackName(stack, X), X)

(***************************************************************************)
(* Profile objects and the built-in defaults                               *)
(***************************************************************************)
\* A record as its reader sees it: the flag and the content of the options.
RecordValue(o, entry) ==
    [id |-> entry.id, enabled |-> entry.enabled, options |-> o.heap[entry.options]]

RecordValues(o, modules) == [i \in 1..Len(modules) |-> RecordValue(o, modules[i])]

\* A step that is a setter call on a Profile object: the objects changed,
\* no Profile object was made.
SetterStep == objs' # objs /\ DOMAIN objs'.profiles = DOMAIN objs.profiles

\* C30: a set_module_enabled or set_module_option call on one Profile object
\* leaves the built-in default records and the records of every other
\* Profile object as they were.
C30_SetterIsLocal ==
    [][SetterStep =>
          \E p \in DOMAIN objs.profiles :
              /\ RecordValues(objs', objs'.defaults)
                    = RecordValues(objs, objs.defaults)
              /\ \A q \in (DOMAIN objs.profiles) \ {p} :
                    RecordValues(objs', objs'.profiles[q])
                        = RecordValues(objs, objs.profiles[q])]_vars

====
